---- MODULE Spec2Model ----
(***************************************************************************)
(* A model of rezvrh: the credentialed token store (an actor task fed by a *)
(* bounded channel), session construction, and the timetable decoder.      *)
(***************************************************************************)
EXTENDS Integers, Sequences, FiniteSets, TLC

VARIABLES
    now,        \* the monotonic clock (Instant::now()), in seconds
    store,      \* the TempToken owned by the spawned task
    chan,       \* the mpsc channel of TokenRequests (ids of the requests)
    req,        \* per get_token call: its position, its oneshot reply, history
    apc,        \* the spawned task: "recv" (awaiting receiver.recv()) or "login"
    cur,        \* the request the task is handling (0: none)
    inflight,   \* login exchanges sent to the portal and not yet answered
    issued,     \* the portal: number of auth tokens issued so far
    last,       \* history of the most recently answered request
    ctorPc,     \* Bakalari::from_creds / from_creds_no_store / no_auth: position
    ctorMode,   \* which constructor runs
    ctorLog,    \* the requests the constructor sent and how each ended
    ctorResult, \* what the constructor returned
    session,    \* the Bakalari value the caller holds (NoSession: none)
    today,      \* chrono::Local::now().date_naive()
    dateText,   \* the trimmed text of a day row's span.bk-day-date
    dateResult, \* what Day::parse made of dateText
    tableType,  \* the Selector (Type) the timetable was requested for
    entry,      \* a div.day-item-hover element: a lesson entry
    lessonResult, \* what parse_single made of entry
    page,       \* the document: its div.bk-hour-wrapper and div.bk-timetable-row
    ppc,        \* Timetable::parse: "hours", "days" or "done"
    phours,     \* the Hours collected so far
    pdays,      \* the Days collected so far
    presult,    \* what Timetable::parse returned
    fAuth,      \* Bakalari.auth of the Session that fetches
    fPc,        \* "new" (directory not fetched), "idle", "wait", "failed"
    fOp,        \* the fetch made last: "get_info", "get_timetable", "test"
    fCookie,    \* the Cookie header of the request sent last
    fResp,      \* the response received last
    fResult,    \* what the fetch made last returned
    fTokens,    \* the tokens Auth::get_token returned, oldest first
    fLogins,    \* login exchanges made since construction
    fDir,       \* the classes, teachers and rooms the Session holds
    fSel,       \* the get_selector call made last and what it returned
    fArgs,      \* which and timetable_type of the get_timetable call made last
    fPath,      \* the path of the URL requested last
    fSent       \* HTTP requests the fetch made last has sent

tokenVars == <<now, store, chan, req, apc, cur, inflight, issued, last>>

ctorVars == <<ctorPc, ctorMode, ctorLog, ctorResult, session>>

dateVars == <<today, dateText, dateResult>>

lessonVars == <<tableType, entry, lessonResult>>

parseVars == <<page, ppc, phours, pdays, presult>>

fetchVars ==
    <<fAuth, fPc, fOp, fCookie, fResp, fResult, fTokens, fLogins,
      fDir, fSel, fArgs, fPath, fSent>>

vars == <<tokenVars, ctorVars, dateVars, lessonVars, parseVars, fetchVars>>

----------------------------------------------------------------------------
(* Bounds of the model *)

\* number of get_token calls made on the Session
MaxRequests == 2
\* the clock runs up to MaxLifetimes token lifetimes (plus a second for each)
MaxLifetimes == 1
\* length of the arbitrary date texts
MaxDateLen == 5
\* number of hour headers on a page
MaxHours == 2

----------------------------------------------------------------------------
(* auth/credentials.rs *)

TOKEN_LIFETIME == 60 * 5

CHANNEL_CAPACITY == 10

AUTH_COOKIE == "BakaAuth"

Requests == 1..MaxRequests

\* LoginResult<String>
Ok(t) == [kind |-> "ok", token |-> t]
Err(e) == [kind |-> e, token |-> 0]
NoResult == [kind |-> "none", token |-> 0]
\* the oneshot sender was dropped without a reply: rx.await is Err(RecvError)
Closed == [kind |-> "closed", token |-> 0]

\* TempToken::new: expiration = Instant::now() + TOKEN_LIFETIME
TempTokenNew(token, t) == [token |-> token, expiration |-> t + TOKEN_LIFETIME]

\* TempToken::expired under a different comparison (expired at the very instant)
TempTokenExpired_AtInstant(s, t) == t >= s.expiration

\* TempToken::expired: Instant::now() > self.expiration
TempTokenExpired(s, t) == t > s.expiration

\* TempToken::get: None when expired, else the token
TempTokenGet(s, t) == IF TempTokenExpired(s, t) THEN 0 ELSE s.token

\* The portal's answers to POST /Login. A Set-Cookie header is modelled by the
\* cookie name and value before its first ';' (semi: whether it has a ';').
TransportError == [kind |-> "transport", status |-> 0, cookies |-> <<>>]
HttpResponse(status, cookies) == [kind |-> "http", status |-> status, cookies |-> cookies]
Cookie(name, value) == [name |-> name, value |-> value, semi |-> TRUE]
\* "name=value" with no attribute after it
BareCookie(name, value) == [name |-> name, value |-> value, semi |-> FALSE]
NoLoginResponse == [kind |-> "none", status |-> 0, cookies |-> <<>>]

LoginResponses(tok) ==
    { TransportError,
      HttpResponse(200, <<>>),
      HttpResponse(200, <<Cookie(AUTH_COOKIE, tok)>>),
      HttpResponse(302, <<>>),
      HttpResponse(302, <<Cookie("Other", tok)>>),
      HttpResponse(302, <<BareCookie(AUTH_COOKIE, tok)>>),
      HttpResponse(302, <<Cookie("Other", 0), Cookie(AUTH_COOKIE, tok)>>) }

\* Credentials::login: the first Set-Cookie entry named BakaAuth of a 302
Login(resp) ==
    IF resp.kind = "transport" THEN Err("Request")
    ELSE IF resp.status # 302 THEN Err("Login")
    ELSE LET idx == { i \in 1..Len(resp.cookies) :
                        resp.cookies[i].semi /\ resp.cookies[i].name = AUTH_COOKIE }
         IN IF idx = {} THEN Err("CookieParse")
            ELSE Ok(resp.cookies[CHOOSE i \in idx : \A j \in idx : i <= j].value)

----------------------------------------------------------------------------
(* The clock *)

MaxTime == MaxLifetimes * (TOKEN_LIFETIME + 1)

TickSteps == {TOKEN_LIFETIME, TOKEN_LIFETIME + 1}

Tick ==
    /\ \E d \in TickSteps : now + d <= MaxTime /\ now' = now + d
    /\ UNCHANGED <<store, chan, req, apc, cur, inflight, issued, last>>
    /\ UNCHANGED <<ctorVars, dateVars, lessonVars, parseVars, fetchVars>>

----------------------------------------------------------------------------
(* Credentials::get_token, the caller's side *)

NewRequest == [pc |-> "idle", at |-> 0, expiredAtCall |-> FALSE,
               logins |-> 0, reply |-> NoResult, result |-> NoResult]

\* a channel that takes a message whatever it holds
HasCapacity_Unbounded(q) == TRUE

\* mpsc::channel(10): a message is taken while fewer than 10 are queued
HasCapacity(q) == Len(q) < CHANNEL_CAPACITY

\* self.sender.send((client, tx)).await.expect(..): waits while the channel
\* is full; Err, and the caller panics, when the task has ended
GetTokenSend(r) ==
    /\ req[r].pc = "idle"
    /\ IF apc = "dead"
       THEN /\ req' = [req EXCEPT ![r].pc = "panicked", ![r].at = now]
            /\ UNCHANGED chan
       ELSE /\ HasCapacity(chan)
            /\ chan' = Append(chan, r)
            /\ req' = [req EXCEPT ![r].pc = "waiting", ![r].at = now,
                                  ![r].expiredAtCall = TempTokenExpired(store, now)]
    /\ UNCHANGED <<now, store, apc, cur, inflight, issued, last>>
    /\ UNCHANGED <<ctorVars, dateVars, lessonVars, parseVars, fetchVars>>

\* rx.await.unwrap(): the reply, or a panic when the sender was dropped
GetTokenRecv(r) ==
    /\ req[r].pc = "waiting"
    /\ req[r].reply # NoResult
    /\ req' = IF req[r].reply = Closed
              THEN [req EXCEPT ![r].pc = "panicked"]
              ELSE [req EXCEPT ![r].pc = "done", ![r].result = req[r].reply]
    /\ UNCHANGED <<now, store, chan, apc, cur, inflight, issued, last>>
    /\ UNCHANGED <<ctorVars, dateVars, lessonVars, parseVars, fetchVars>>

\* the caller drops the future of get_token, and with it the oneshot
\* receiver, before the reply is there
Abandon(r) ==
    /\ req[r].pc = "waiting"
    /\ req[r].reply = NoResult
    /\ req' = [req EXCEPT ![r].pc = "abandoned"]
    /\ UNCHANGED <<now, store, chan, apc, cur, inflight, issued, last>>
    /\ UNCHANGED <<ctorVars, dateVars, lessonVars, parseVars, fetchVars>>

----------------------------------------------------------------------------
(* Credentials::new, the spawned task that owns the token *)

\* the task takes the next request without waiting for a pending login
ActorReady_Unserialized == TRUE

\* the task is at receiver.recv().await only between two requests
ActorReady == apc = "recv"

\* a reply that cannot be delivered is let go and the task goes on
ReplyTo_IgnoreDropped(r, answer, rest) ==
    [req |-> IF req[r].pc = "abandoned" THEN req ELSE [req EXCEPT ![r].reply = answer],
     chan |-> rest, apc |-> "recv"]

\* sender.send(token).unwrap(): the reply goes to the caller of request r
\* and the task returns to recv with rest queued. When that caller has
\* dropped its receiver send is Err and unwrap panics: the task ends, its
\* receiver is dropped, and so are the requests still queued with their
\* reply senders.
ReplyTo(r, answer, rest) ==
    IF req[r].pc = "abandoned"
    THEN [req |-> [q \in DOMAIN req |->
                    IF (\E k \in 1..Len(rest) : rest[k] = q) /\ req[q].pc = "waiting"
                    THEN [req[q] EXCEPT !.reply = Closed]
                    ELSE req[q]],
          chan |-> <<>>, apc |-> "dead"]
    ELSE [req |-> [req EXCEPT ![r].reply = answer], chan |-> rest, apc |-> "recv"]

\* while let Some(..) = receiver.recv().await, store.get() is Some:
\* the cached token is sent back at once
ActorServeCached ==
    /\ ActorReady
    /\ chan # <<>>
    /\ ~TempTokenExpired(store, now)
    /\ LET r == Head(chan)
           sent == ReplyTo(r, Ok(TempTokenGet(store, now)), Tail(chan))
       IN
        /\ req' = sent.req
        /\ chan' = sent.chan
        /\ apc' = sent.apc
        /\ last' = [req |-> r, handledAt |-> now, before |-> store, login |-> 0,
                    repliedAt |-> now, reply |-> Ok(TempTokenGet(store, now)),
                    after |-> store, resp |-> NoLoginResponse]
    /\ UNCHANGED <<now, store, cur, inflight, issued>>
    /\ UNCHANGED <<ctorVars, dateVars, lessonVars, parseVars, fetchVars>>

\* store.get() is None: Self::login(..).await is started
ActorLoginStart ==
    /\ ActorReady
    /\ chan # <<>>
    /\ TempTokenExpired(store, now)
    /\ LET r == Head(chan) IN
        /\ cur' = r
        /\ req' = [req EXCEPT ![r].logins = @ + 1]
        /\ last' = [req |-> r, handledAt |-> now, before |-> store, login |-> 1,
                    repliedAt |-> 0, reply |-> NoResult, after |-> store,
                    resp |-> NoLoginResponse]
    /\ chan' = Tail(chan)
    /\ apc' = "login"
    /\ inflight' = inflight + 1
    /\ UNCHANGED <<now, store, issued>>
    /\ UNCHANGED <<ctorVars, dateVars, lessonVars, parseVars, fetchVars>>

\* the outcome of a failed login is stored like a token
Renewed_CacheFailure(st, res, t) == TempTokenNew(res.token, t)

\* the store is left as it was by a renewal
Renewed_KeepOld(st, res, t) == st

\* token.map(|token| { store = TempToken::new(token); .. }): the store after
\* a login that ended with res
Renewed(st, res, t) ==
    IF res.kind = "ok" THEN TempTokenNew(res.token, t) ELSE st

\* the login answers: on Ok the store is replaced, and the result is sent back
ActorLoginDone ==
    /\ apc = "login"
    /\ inflight > 0
    /\ \E resp \in LoginResponses(issued + 1) :
        LET res == Login(resp)
            newStore == Renewed(store, res, now)
            answer == IF res.kind = "ok" THEN Ok(newStore.token) ELSE res
            sent == ReplyTo(cur, answer, chan)
        IN  /\ store' = newStore
            /\ issued' = IF res.kind = "ok" THEN issued + 1 ELSE issued
            /\ req' = sent.req
            /\ chan' = sent.chan
            /\ apc' = sent.apc
            /\ last' = [last EXCEPT !.req = cur, !.repliedAt = now,
                                     !.reply = answer, !.after = newStore,
                                     !.resp = resp]
    /\ cur' = 0
    /\ inflight' = inflight - 1
    /\ UNCHANGED now
    /\ UNCHANGED <<ctorVars, dateVars, lessonVars, parseVars, fetchVars>>

----------------------------------------------------------------------------
(* The credentialed Session after construction: Credentials::new has logged *)
(* in at time 0 and spawned the task.                                      *)

NoLast == [req |-> 0, handledAt |-> 0, before |-> TempTokenNew(1, 0), login |-> 0,
           repliedAt |-> 0, reply |-> NoResult, after |-> TempTokenNew(1, 0),
           resp |-> NoLoginResponse]

----------------------------------------------------------------------------
(* chrono::NaiveDate *)

Date(y, m, d) == [y |-> y, m |-> m, d |-> d]

IsLeap(y) == (y % 4 = 0 /\ y % 100 # 0) \/ y % 400 = 0

DaysInMonth(y, m) ==
    IF m = 2 THEN (IF IsLeap(y) THEN 29 ELSE 28)
    ELSE IF m \in {4, 6, 9, 11} THEN 30 ELSE 31

\* NaiveDate::from_ymd_opt is Some
FromYmdOpt(y, m, d) == m \in 1..12 /\ d \in 1..DaysInMonth(y, m)

DaysBeforeMonth(y, m) ==
    <<0, 31, 59, 90, 120, 151, 181, 212, 243, 273, 304, 334>>[m]
        + (IF m > 2 /\ IsLeap(y) THEN 1 ELSE 0)

\* the number of the day, counted from 1 January of year 1
DayNumber(dt) ==
    LET p == dt.y - 1 IN
    365 * p + (p \div 4) - (p \div 100) + (p \div 400)
        + DaysBeforeMonth(dt.y, dt.m) + dt.d

\* (date - now).num_days()
NumDays(date, from) == DayNumber(date) - DayNumber(from)

NoDateResult == [kind |-> "none", y |-> 0, m |-> 0, d |-> 0]

DateIdle ==
    /\ today = Date(0, 0, 0)
    /\ dateText = <<>>
    /\ dateResult = NoDateResult

----------------------------------------------------------------------------
(* timetable.rs, timetable/lesson.rs: values *)

\* Type: Teacher(id), Class(id), Room(id)
Type(kind, id) == [kind |-> kind, id |-> id]

\* Option<String>
None == [some |-> FALSE, s |-> <<>>]
Some(s) == [some |-> TRUE, s |-> s]

\* JSON values of a payload field: a missing key, null, a string, another value
JMissing == [j |-> "missing", s |-> <<>>]
JNull == [j |-> "null", s |-> <<>>]
JStr(s) == [j |-> "str", s |-> s]
JOther == [j |-> "other", s |-> <<>>]

\* the data-detail attribute: absent, not a JSON object, or an object
Payload(form, type, subjecttext, teacher, group, room, theme, rest, info, abbr) ==
    [form |-> form, type |-> type, subjecttext |-> subjecttext, teacher |-> teacher,
     group |-> group, room |-> room, theme |-> theme, rest |-> rest,
     InfoAbsentName |-> info, absentinfo |-> abbr]

NoAttr == Payload("absent", "", JNull, JNull, JNull, JNull, JNull, TRUE, JNull, JNull)
BadJson == Payload("invalid", "", JNull, JNull, JNull, JNull, JNull, TRUE, JNull, JNull)

\* a lesson entry: its CSS classes, its data-detail, its div.middle and
\* div.bottom descendants (each element: the sequence of its text nodes)
Entry(classes, detail, middle, bottom) ==
    [classes |-> classes, detail |-> detail, middle |-> middle, bottom |-> bottom]

\* Lesson and its ParseError, in one shape
Lesson(kind, prop, class, subject, abbr, teacher, teacher_abbr, room, group, topic, info) ==
    [kind |-> kind, prop |-> prop, class |-> class, subject |-> subject, abbr |-> abbr,
     teacher |-> teacher, teacher_abbr |-> teacher_abbr, room |-> room,
     group |-> group, topic |-> topic, info |-> info]

Bare(kind, prop) ==
    Lesson(kind, prop, <<>>, <<>>, <<>>, <<>>, None, None, None, None, <<>>)

NoLesson == Bare("none", "")
Canceled == Bare("Canceled", "")
LessonErr(e) == Bare(e, "")
MissingProperty(prop) == Bare("MissingProperty", prop)

LessonIdle ==
    /\ tableType = Type("none", <<>>)
    /\ entry = Entry({}, NoAttr, <<>>, <<>>)
    /\ lessonResult = NoLesson

\* Timetable and timetable::ParseError
NoTimetable == [kind |-> "none", err |-> "", hours |-> <<>>, days |-> <<>>]

ParseIdle ==
    /\ page = [hours |-> <<>>, days |-> <<>>]
    /\ ppc = "idle"
    /\ phours = <<>>
    /\ pdays = <<>>
    /\ presult = NoTimetable

\* Auth: Credentials (the token is in the store), Token(token), None
Auth(kind, token) == [kind |-> kind, token |-> token]

\* the Cookie header of a request: none, or "BakaAuth=<token>" (token 0 is
\* the empty string)
NoCookie == [sent |-> FALSE, name |-> "", token |-> 0]

\* a response to a fetch: status line and headers, and the document of its body
NoResponse ==
    [dir |-> [kind |-> "none", status |-> 0, location |-> <<>>, marker |-> FALSE,
              classes |-> <<>>, teachers |-> <<>>, rooms |-> <<>>],
     page |-> [hours |-> <<>>, days |-> <<>>]]

\* RequestResult, with the Timetable of get_timetable
FetchResult(kind, timetable) == [kind |-> kind, timetable |-> timetable]

\* Option<Type>
NoneType == [some |-> FALSE, v |-> Type("none", <<>>)]
SomeType(t) == [some |-> TRUE, v |-> t]

\* the Session before its directory is fetched, no get_selector call, no
\* get_timetable call
NoDirectory ==
    [kind |-> "none", classes |-> [x \in {} |-> <<>>],
     teachers |-> [x \in {} |-> <<>>], rooms |-> [x \in {} |-> <<>>]]
NoSelection == [typ |-> "none", name |-> <<>>, result |-> NoneType]
NoArgs == [which |-> "none", type |-> Type("none", <<>>)]

FetchIdle ==
    /\ fAuth = Auth("none", 0)
    /\ fPc = "off"
    /\ fOp = "none"
    /\ fCookie = NoCookie
    /\ fResp = NoResponse
    /\ fResult = FetchResult("none", NoTimetable)
    /\ fTokens = <<>>
    /\ fLogins = 0
    /\ fDir = NoDirectory
    /\ fSel = NoSelection
    /\ fArgs = NoArgs
    /\ fPath = <<>>
    /\ fSent = 0

NoSession == [auth |-> "none", classes |-> <<>>, teachers |-> <<>>, rooms |-> <<>>]

\* no constructor is running (the specifications of the other parts)
CtorIdle ==
    /\ ctorPc = "idle"
    /\ ctorMode = "none"
    /\ ctorLog = <<>>
    /\ ctorResult = "none"
    /\ session = NoSession

Init ==
    /\ now = 0
    /\ store = TempTokenNew(1, 0)
    /\ chan = <<>>
    /\ req = [r \in Requests |-> NewRequest]
    /\ apc = "recv"
    /\ cur = 0
    /\ inflight = 0
    /\ issued = 1
    /\ last = NoLast
    /\ CtorIdle
    /\ DateIdle
    /\ LessonIdle
    /\ ParseIdle
    /\ FetchIdle

Next ==
    \/ Tick
    \/ \E r \in Requests : GetTokenSend(r)
    \/ \E r \in Requests : GetTokenRecv(r)
    \/ ActorServeCached
    \/ ActorLoginStart
    \/ ActorLoginDone

Spec == Init /\ [][Next]_vars

\* The Session with one caller more than the channel holds, none of whom
\* drops its call. Two beginnings: the Session just constructed, all but
\* MaxRequests of the callers having been served from the cache already;
\* and a Session constructed at the last instant of the clock on which
\* CHANNEL_CAPACITY callers have enqueued before the task ran.
LiveCallers == 1..(CHANNEL_CAPACITY + 1)

Served == [pc |-> "done", at |-> 0, expiredAtCall |-> FALSE,
           logins |-> 0, reply |-> Ok(1), result |-> Ok(1)]

Queued == [pc |-> "waiting", at |-> MaxTime, expiredAtCall |-> FALSE,
           logins |-> 0, reply |-> NoResult, result |-> NoResult]

InitLive ==
    /\ \/ /\ now = 0
          /\ chan = <<>>
          /\ req = [r \in LiveCallers |-> IF r <= MaxRequests THEN NewRequest ELSE Served]
       \/ /\ now = MaxTime
          /\ chan = [k \in 1..CHANNEL_CAPACITY |-> k]
          /\ req = [r \in LiveCallers |-> IF r <= CHANNEL_CAPACITY THEN Queued ELSE NewRequest]
    /\ store = TempTokenNew(1, now)
    /\ apc = "recv"
    /\ cur = 0
    /\ inflight = 0
    /\ issued = 1
    /\ last = NoLast
    /\ CtorIdle
    /\ DateIdle
    /\ LessonIdle
    /\ ParseIdle
    /\ FetchIdle

NextLive ==
    \/ Tick
    \/ \E r \in LiveCallers : GetTokenSend(r)
    \/ \E r \in LiveCallers : GetTokenRecv(r)
    \/ ActorServeCached
    \/ ActorLoginStart
    \/ ActorLoginDone

\* the runtime runs the task whenever it can go on and every login
\* exchange ends; a caller whose reply is there is run and takes it
Fairness ==
    /\ WF_vars(ActorServeCached \/ ActorLoginStart \/ ActorLoginDone)
    /\ WF_vars(\E r \in LiveCallers : GetTokenRecv(r))

SpecLive == InitLive /\ [][NextLive]_vars /\ Fairness

\* the Session with callers that may drop their get_token calls
NextAbandon ==
    \/ Next
    \/ \E r \in Requests : Abandon(r)

SpecAbandon == Init /\ [][NextAbandon]_vars

----------------------------------------------------------------------------
(* Claims about the token store, checked under Spec *)

\* the requests all made at one instant at which the cached token had
\* expired, and all answered
BatchDone ==
    /\ \A r \in Requests : req[r].pc = "done" /\ req[r].expiredAtCall
    /\ \A r, q \in Requests : req[r].at = req[q].at

RenewalLogins == Cardinality({r \in Requests : req[r].logins > 0})

\* C1: at most one renewal login exchange is in flight at any moment, and
\* it is the one the token-owning task awaits for the single request it is
\* handling.
C1_OneLoginInFlight ==
    /\ inflight <= 1
    /\ inflight = 1 <=> (apc = "login" /\ cur \in Requests)
    /\ apc = "recv" => cur = 0

\* C1 witness: a renewal login is in flight while another request is queued
C1_Witness == inflight = 1 /\ apc = "login" /\ chan # <<>>

\* C2: N requests made at one instant with the cached token expired cause
\* exactly one renewal login in total.
C2_ExactlyOneRenewal == BatchDone => RenewalLogins = 1

\* C3: the requests concurrent with one renewal are all answered with the
\* same renewed token, or all with the same error.
C3_ConsistentOutcome ==
    BatchDone =>
        ~ \E r, q \in Requests : req[r].result.kind # "ok" /\ req[q].result.kind = "ok"

LoginErrors == {"Request", "Login", "CookieParse"}

\* C27: when a renewal login fails, the task leaves its cached token and
\* expiration as they were and sends the error to the request that caused
\* the renewal and to no other; nothing of the failure is cached, so the
\* request the task takes next causes a login of its own.
C27_FailedRenewalNotCached ==
    [][ /\ (apc = "login" /\ apc' = "recv" /\ req'[cur].reply.kind # "ok") =>
              /\ store' = store
              /\ TempTokenExpired(store', now')
              /\ req'[cur].reply.kind \in LoginErrors
              /\ req'[cur].logins = 1
              /\ \A q \in Requests \ {cur} : req'[q] = req[q]
        /\ (apc = "recv" /\ last.reply.kind \in LoginErrors /\ Len(chan') < Len(chan)) =>
              /\ apc' = "login"
              /\ cur' = Head(chan)
              /\ inflight' = inflight + 1
              /\ req'[Head(chan)].logins = 1
      ]_vars

\* C27 witness: the renewal for the first request answered failed, and the
\* request taken next has a login of its own in flight
C27_Witness ==
    /\ \E r \in Requests : req[r].reply.kind \in LoginErrors /\ req[r].logins = 1
    /\ apc = "login" /\ inflight = 1
    /\ req[cur].logins = 1 /\ req[cur].reply = NoResult
    /\ store = TempTokenNew(1, 0)

\* C30: every token get_token returns is the token of the most recent
\* successful login made before the reply (the login of the construction
\* or the latest renewal); a token a later renewal has replaced is never
\* returned again.
C30_LatestTokenReturned ==
    /\ store.token = issued
    /\ last.reply.kind = "ok" => last.reply.token = issued
    /\ \A r \in Requests :
          req[r].reply.kind = "ok" => req[r].reply.token \in 1..issued
    /\ (last.login = 0 /\ last.reply.kind = "ok") =>
          \A r \in Requests \ {last.req} :
              req[r].reply.kind = "ok" => req[r].reply.token <= last.reply.token

\* C30 witness: after a renewal answered one request with the second token,
\* the next request was answered with that token from the cache
C30_Witness ==
    /\ last.login = 0 /\ last.reply = Ok(2) /\ issued = 2
    /\ \E r \in Requests \ {last.req} : req[r].logins = 1 /\ req[r].reply = Ok(2)

\* C29: when every login exchange ends and no caller drops its call, every
\* get_token request is answered, and answered once; the requests are
\* answered in the order they were enqueued; never more than 10 are queued,
\* a caller that finds 10 queued enqueues only once there are fewer.
\* (A request goes from waiting to done and stays there, so that every
\* waiting request ends as done is: again and again no request is waiting.)
C29_EveryRequestAnswered ==
    /\ [](Len(chan) <= 10)
    /\ [][ /\ \A r \in LiveCallers :
                /\ req[r].reply # NoResult => req'[r].reply = req[r].reply
                /\ (req[r].reply = NoResult /\ req'[r].reply # NoResult) =>
                      \/ r = cur
                      \/ cur = 0 /\ chan # <<>> /\ r = Head(chan)
                /\ (req[r].pc = "idle" /\ req'[r].pc # "idle") =>
                      Len(chan) < 10 /\ chan' = Append(chan, r) /\ req'[r].pc = "waiting"
                /\ req[r].pc = "waiting" => req'[r].pc \in {"waiting", "done"}
                /\ req[r].pc = "done" => req'[r] = req[r]
                /\ req'[r].pc = "done" => req'[r].result = req'[r].reply
           /\ \/ chan' = chan
              \/ chan # <<>> /\ chan' = Tail(chan)
              \/ \E q \in LiveCallers : chan' = Append(chan, q)
      ]_vars
    /\ []<>(\A r \in LiveCallers : req[r].pc # "waiting")

\* C29 witness: the first of 10 queued requests was answered and received,
\* and the caller that had found the channel full is now the 10th queued
C29_Witness ==
    /\ Len(chan) = CHANNEL_CAPACITY
    /\ chan[CHANNEL_CAPACITY] = CHANNEL_CAPACITY + 1
    /\ req[1].pc = "done" /\ req[1].result = Ok(1)

\* C28: when a get_token caller drops its reply receiver before the task
\* answers it, the reply send of the task fails and the task stops; from
\* then on no request, queued or made later, receives a token.
C28_AbandonStopsTask ==
    [][ /\ \A r \in Requests :
              req'[r].pc = "abandoned" =>
                  \/ \E k \in 1..Len(chan') : chan'[k] = r
                  \/ cur' = r
                  \/ apc' = "dead"
        /\ apc = "dead" =>
              /\ apc' = "dead" /\ chan' = <<>> /\ inflight' = 0
              /\ \A r \in Requests :
                    /\ req'[r].reply.kind = "ok" => req'[r].reply = req[r].reply
                    /\ req[r].pc = "idle" => req'[r].pc \in {"idle", "panicked"}
                    /\ req[r].reply = Closed => req'[r].pc \in {"waiting", "panicked"}
      ]_vars

\* C28 witness: a request was dropped by its caller and the task has
\* stopped; the request queued behind it ended without a token
C28_Witness ==
    /\ apc = "dead"
    /\ \E r \in Requests : req[r].pc = "abandoned"
    /\ \E r \in Requests : req[r].pc = "panicked" /\ req[r].reply = Closed

\* the response carries a Set-Cookie entry whose cookie name is BakaAuth
CarriesAuthCookie(resp) ==
    \E i \in 1..Len(resp.cookies) : resp.cookies[i].name = AUTH_COOKIE

\* C24: the login exchange classifies the portal's response: 302 with a
\* Set-Cookie entry named BakaAuth is success with that cookie's value as
\* the token, 302 without one is CookieParse, any other status is the Login
\* error; a 302 that carries the auth cookie is never CookieParse.
C24_LoginClassified ==
    (last.login = 1 /\ last.resp.kind = "http") =>
        /\ (last.resp.status = 302 /\ CarriesAuthCookie(last.resp)) =>
              /\ last.reply.kind = "ok"
              /\ \E i \in 1..Len(last.resp.cookies) :
                    /\ last.resp.cookies[i].name = AUTH_COOKIE
                    /\ last.resp.cookies[i].value = last.reply.token
        /\ (last.resp.status = 302 /\ ~CarriesAuthCookie(last.resp)) =>
              last.reply = Err("CookieParse")
        /\ last.resp.status # 302 => last.reply = Err("Login")

\* C4 as stated: the cached token is valid exactly when now < expiration.
C4_ValidIffBefore ==
    (last.req # 0 /\ last.reply # NoResult) =>
        /\ last.handledAt < last.before.expiration =>
              last.login = 0 /\ last.reply = Ok(last.before.token)
        /\ last.handledAt >= last.before.expiration => last.login = 1

\* C4 amended: the cached token is valid exactly when now <= expiration. A
\* request handled then is answered with the cached token and no login; a
\* request handled when now > expiration performs one login exchange, and
\* when it succeeds the new token is cached with expiration = the instant
\* it was issued + TOKEN_LIFETIME and returned; when it fails the cache is
\* left as it was and the error is returned.
C4_ValidUntilExpiration ==
    (last.req # 0 /\ last.reply # NoResult) =>
        /\ last.handledAt <= last.before.expiration =>
              /\ last.login = 0
              /\ last.reply = Ok(last.before.token)
              /\ last.after = last.before
        /\ last.handledAt > last.before.expiration =>
              /\ last.login = 1
              /\ last.reply.kind = "ok" =>
                    /\ last.after.token = last.reply.token
                    /\ last.after.token # last.before.token
                    /\ last.after.expiration = last.repliedAt + 60 * 5
              /\ last.reply.kind # "ok" => last.after = last.before

\* C4 witness: a request handled at the very instant of expiration was
\* answered from the cache
C4_Witness ==
    /\ last.req # 0
    /\ last.handledAt = last.before.expiration
    /\ last.reply = Ok(last.before.token)

----------------------------------------------------------------------------
(* Text: a string is a sequence of one-character strings *)

IsSpace(c) == c \in {" ", "\t", "\n"}

RECURSIVE TrimStart(_)
TrimStart(s) == IF s # <<>> /\ IsSpace(Head(s)) THEN TrimStart(Tail(s)) ELSE s

RECURSIVE TrimEnd(_)
TrimEnd(s) ==
    IF s # <<>> /\ IsSpace(s[Len(s)]) THEN TrimEnd(SubSeq(s, 1, Len(s) - 1)) ELSE s

\* str::trim
Trim(s) == TrimEnd(TrimStart(s))

\* the positions at which pat occurs in s
Occurrences(s, pat) ==
    { i \in 1..(Len(s) - Len(pat) + 1) : SubSeq(s, i, i + Len(pat) - 1) = pat }

\* str::contains
Contains(s, pat) == Occurrences(s, pat) # {}

\* str::split_once: <<found, before, after>> around the first occurrence
SplitOnce(s, pat) ==
    LET occ == Occurrences(s, pat) IN
    IF occ = {} THEN [found |-> FALSE, before |-> <<>>, after |-> <<>>]
    ELSE LET i == CHOOSE k \in occ : \A j \in occ : k <= j
         IN [found |-> TRUE, before |-> SubSeq(s, 1, i - 1),
             after |-> SubSeq(s, i + Len(pat), Len(s))]

----------------------------------------------------------------------------
(* bakalari/util.rs: the directory page *)

\* an <option> of a <select>: its text nodes and its value attribute
Option(texts, value) == [texts |-> texts, value |-> value]

\* the pair inserted first under a key is kept
MapInsert_FirstWins(m, k, v) ==
    [x \in DOMAIN m \cup {k} |-> IF x \in DOMAIN m THEN m[x] ELSE v]

\* HashMap::insert through collect: a later pair replaces an earlier one
MapInsert(m, k, v) == [x \in DOMAIN m \cup {k} |-> IF x = k THEN v ELSE m[x]]

EmptyMap == [x \in {} |-> <<>>]

\* get_map: name = first text node, trimmed; id = value attribute, trimmed;
\* the first option without a text node fails the whole map
RECURSIVE GetMapFrom(_, _)
GetMapFrom(options, m) ==
    IF options = <<>> THEN [ok |-> TRUE, map |-> m]
    ELSE LET e == Head(options) IN
         IF e.texts = <<>> THEN [ok |-> FALSE, map |-> EmptyMap]
         ELSE GetMapFrom(Tail(options), MapInsert(m, Trim(e.texts[1]), Trim(e.value)))

get_map(options) == GetMapFrom(options, EmptyMap)

\* answers to GET timetable/public
Redirect(location) ==
    [kind |-> "http", status |-> 302, location |-> location, marker |-> FALSE,
     classes |-> <<>>, teachers |-> <<>>, rooms |-> <<>>]
Page(marker, classes, teachers, rooms) ==
    [kind |-> "http", status |-> 200, location |-> <<>>, marker |-> marker,
     classes |-> classes, teachers |-> teachers, rooms |-> rooms]
DirTransportError ==
    [kind |-> "transport", status |-> 0, location |-> <<>>, marker |-> FALSE,
     classes |-> <<>>, teachers |-> <<>>, rooms |-> <<>>]

\* Location header values: absent, not visible ASCII, or a text
NoLocation == <<"<absent>">>
OpaqueLocation == <<"<opaque>">>
LOGIN == <<"l", "o", "g", "i", "n">>

DirOk(c, t, r) == [kind |-> "ok", classes |-> c, teachers |-> t, rooms |-> r]
DirErr(e) == [kind |-> e, classes |-> EmptyMap, teachers |-> EmptyMap, rooms |-> EmptyMap]

\* every redirect is taken as a redirect to the login page
get_info_AnyRedirectIsLogin(resp) ==
    IF resp.kind = "transport" THEN DirErr("Request")
    ELSE IF resp.status \in 300..399 THEN DirErr("AuthRequired")
    ELSE IF ~resp.marker THEN DirErr("UnknownResponse")
    ELSE LET c == get_map(resp.classes)
             t == get_map(resp.teachers)
             r == get_map(resp.rooms)
         IN IF ~c.ok \/ ~t.ok \/ ~r.ok THEN DirErr("UnknownResponse")
            ELSE DirOk(c.map, t.map, r.map)

\* get_info
get_info(resp) ==
    IF resp.kind = "transport" THEN DirErr("Request")
    ELSE IF resp.status \in 300..399 THEN
        IF resp.location = NoLocation THEN DirErr("UnknownResponse")
        ELSE IF resp.location = OpaqueLocation THEN DirErr("UnknownResponse")
        ELSE IF Contains(resp.location, LOGIN) THEN DirErr("AuthRequired")
        ELSE DirErr("UnknownResponse")
    ELSE IF ~resp.marker THEN DirErr("UnknownResponse")
    ELSE LET c == get_map(resp.classes)
             t == get_map(resp.teachers)
             r == get_map(resp.rooms)
         IN IF ~c.ok \/ ~t.ok \/ ~r.ok THEN DirErr("UnknownResponse")
            ELSE DirOk(c.map, t.map, r.map)

N7B == <<"7", ".", "B">>

DirResponses ==
    { DirTransportError,
      Redirect(NoLocation),
      Redirect(OpaqueLocation),
      Redirect(<<"/">> \o LOGIN),
      Redirect(<<"/", "x">>),
      Page(FALSE, <<>>, <<>>, <<>>),
      Page(TRUE, <<Option(<<N7B>>, <<"1">>), Option(<<N7B \o <<" ">> >>, <<"2">>)>>,
                 <<Option(<<<<"N">>>>, <<"T">>)>>, <<>>),
      Page(TRUE, <<>>,
                 <<Option(<<<<"N">>>>, <<"T">>), Option(<<<<"N">>>>, <<"U">>)>>,
                 <<Option(<<<<" ", "R">>>>, <<"1">>), Option(<<<<"Q">>>>, <<"3">>),
                   Option(<<<<"R">>, <<"x">>>>, <<"2", " ">>)>>),
      Page(TRUE, <<Option(<<N7B>>, <<"1">>)>>, <<Option(<<>>, <<"T">>)>>, <<>>) }

----------------------------------------------------------------------------
(* bakalari.rs: Bakalari::from_creds, from_creds_no_store, no_auth *)

CtorModes == {"from_creds", "from_creds_no_store", "no_auth"}

Session(auth, info) ==
    [auth |-> auth, classes |-> info.classes, teachers |-> info.teachers,
     rooms |-> info.rooms]

\* the constructor hands out a Session whose directory was never filled
SessionOrError_HalfInitialized(auth, info) ==
    IF info.kind = "ok" THEN Session(auth, info)
    ELSE [auth |-> auth, classes |-> <<>>, teachers |-> <<>>, rooms |-> <<>>]

\* get_info(..).await? ; Ok(Self { client, auth, classes, teachers, rooms })
SessionOrError(auth, info) ==
    IF info.kind = "ok" THEN Session(auth, info) ELSE NoSession

AuthOf(mode) ==
    CASE mode = "from_creds" -> "Credentials"
      [] mode = "from_creds_no_store" -> "Token"
      [] OTHER -> "None"

\* the constructor is called: from_creds and from_creds_no_store log in
\* first, no_auth goes straight to the directory
CtorCall(mode) ==
    /\ ctorPc = "start"
    /\ ctorMode' = mode
    /\ IF mode = "no_auth"
       THEN /\ ctorPc' = "directory"
            /\ ctorLog' = Append(ctorLog, "directory")
            /\ inflight' = inflight
       ELSE /\ ctorPc' = "login"
            /\ ctorLog' = Append(ctorLog, "login")
            /\ inflight' = inflight + 1
    /\ UNCHANGED <<now, store, chan, req, apc, cur, issued, last, ctorResult, session>>
    /\ UNCHANGED <<dateVars, lessonVars, parseVars, fetchVars>>

\* Credentials::login(..).await? (inside Credentials::new for from_creds)
CtorLoginDone ==
    /\ ctorPc = "login"
    /\ \E resp \in LoginResponses(issued + 1) :
        LET res == Login(resp) IN
        IF res.kind # "ok"
        THEN /\ ctorPc' = "done"
             /\ ctorResult' = res.kind
             /\ ctorLog' = Append(ctorLog, "login_err")
             /\ UNCHANGED <<store, issued>>
        ELSE /\ store' = TempTokenNew(res.token, now)
             /\ issued' = issued + 1
             /\ ctorResult' = ctorResult
             /\ IF ctorMode = "from_creds"
                THEN /\ ctorPc' = "token"
                     /\ ctorLog' = Append(ctorLog, "login_ok")
                ELSE /\ ctorPc' = "directory"
                     /\ ctorLog' = ctorLog \o <<"login_ok", "directory">>
    /\ inflight' = inflight - 1
    /\ UNCHANGED <<now, chan, req, apc, cur, last, ctorMode, session>>
    /\ UNCHANGED <<dateVars, lessonVars, parseVars, fetchVars>>

\* from_creds: auth.get_token(client).await? is answered by the spawned task
\* from its cache
CtorTokenCached ==
    /\ ctorPc = "token"
    /\ ~TempTokenExpired(store, now)
    /\ ctorPc' = "directory"
    /\ ctorLog' = Append(ctorLog, "directory")
    /\ UNCHANGED <<tokenVars, ctorMode, ctorResult, session>>
    /\ UNCHANGED <<dateVars, lessonVars, parseVars, fetchVars>>

\* from_creds: the token expired before the task was asked; it logs in again
CtorTokenRenew ==
    /\ ctorPc = "token"
    /\ TempTokenExpired(store, now)
    /\ ctorPc' = "login"
    /\ ctorLog' = Append(ctorLog, "login")
    /\ inflight' = inflight + 1
    /\ UNCHANGED <<now, store, chan, req, apc, cur, issued, last>>
    /\ UNCHANGED <<ctorMode, ctorResult, session>>
    /\ UNCHANGED <<dateVars, lessonVars, parseVars, fetchVars>>

\* get_info(..).await? and the construction of Self
CtorDirectoryDone ==
    /\ ctorPc = "directory"
    /\ \E resp \in DirResponses :
        LET info == get_info(resp) IN
        /\ session' = SessionOrError(AuthOf(ctorMode), info)
        /\ ctorResult' = info.kind
        /\ ctorLog' = Append(ctorLog, IF info.kind = "ok" THEN "directory_ok"
                                                            ELSE "directory_err")
    /\ ctorPc' = "done"
    /\ UNCHANGED <<tokenVars, ctorMode>>
    /\ UNCHANGED <<dateVars, lessonVars, parseVars, fetchVars>>

\* time passes while the constructor waits
CtorTick ==
    /\ ctorPc \in {"login", "token", "directory"}
    /\ \E d \in TickSteps : now + d <= MaxTime /\ now' = now + d
    /\ UNCHANGED <<store, chan, req, apc, cur, inflight, issued, last, ctorVars>>
    /\ UNCHANGED <<dateVars, lessonVars, parseVars, fetchVars>>

InitCtor ==
    /\ now = 0
    /\ store = [token |-> 0, expiration |-> 0]
    /\ chan = <<>>
    /\ req = [r \in Requests |-> NewRequest]
    /\ apc = "recv"
    /\ cur = 0
    /\ inflight = 0
    /\ issued = 0
    /\ last = NoLast
    /\ ctorPc = "start"
    /\ ctorMode = "none"
    /\ ctorLog = <<>>
    /\ ctorResult = "none"
    /\ session = NoSession
    /\ DateIdle
    /\ LessonIdle
    /\ ParseIdle
    /\ FetchIdle

NextCtor ==
    \/ \E mode \in CtorModes : CtorCall(mode)
    \/ CtorLoginDone
    \/ CtorTokenCached
    \/ CtorTokenRenew
    \/ CtorDirectoryDone
    \/ CtorTick

SpecCtor == InitCtor /\ [][NextCtor]_vars

\* C5: a credentialed constructor logs in before it fetches the directory
\* and is all-or-nothing: every directory request directly follows a
\* successful login, no request follows a failed login, and when the
\* directory fetch fails the constructor returns an error and no Session;
\* a Session exists only after the directory was fetched, with its maps.
C5_AllOrNothing ==
    /\ \A i \in 1..Len(ctorLog) :
          (ctorLog[i] = "directory" /\ ctorMode # "no_auth") =>
              i > 1 /\ ctorLog[i - 1] = "login_ok"
    /\ \A i \in 1..Len(ctorLog) :
          ctorLog[i] = "login_err" => i = Len(ctorLog) /\ ctorPc = "done"
    /\ \A i \in 1..Len(ctorLog) :
          ctorLog[i] \in {"login_err", "directory_err"} =>
              session = NoSession /\ ctorResult \notin {"none", "ok"}
    /\ session # NoSession =>
          /\ ctorPc = "done" /\ ctorResult = "ok"
          /\ ctorLog[Len(ctorLog)] = "directory_ok"
          /\ session.auth = AuthOf(ctorMode)

\* C5 witness: from_creds logged in, the directory fetch failed, and the
\* constructor returned the error and no Session
C5_Witness ==
    /\ ctorMode = "from_creds" /\ ctorPc = "done"
    /\ \E i \in 1..Len(ctorLog) : ctorLog[i] = "login_ok"
    /\ ctorLog[Len(ctorLog)] = "directory_err"
    /\ session = NoSession /\ ctorResult = "UnknownResponse"

----------------------------------------------------------------------------
(* timetable/day.rs: the date of a day row *)

DIGITS == <<"0", "1", "2", "3", "4", "5", "6", "7", "8", "9">>

IsDigit(c) == \E k \in 1..10 : DIGITS[k] = c

DigitValue(c) == (CHOOSE k \in 1..10 : DIGITS[k] = c) - 1

RECURSIVE DigitsValue(_, _)
DigitsValue(s, acc) ==
    IF s = <<>> THEN acc ELSE DigitsValue(Tail(s), 10 * acc + DigitValue(Head(s)))

\* str::parse::<u32> / ::<usize>: an optional '+', then one or more digits
\* (the texts of the model are too short to overflow)
ParseUnsigned(s) ==
    LET body == IF s # <<>> /\ Head(s) = "+" THEN Tail(s) ELSE s IN
    IF body = <<>> \/ \E i \in 1..Len(body) : ~IsDigit(body[i])
    THEN [ok |-> FALSE, val |-> 0]
    ELSE [ok |-> TRUE, val |-> DigitsValue(body, 0)]

DateOk(y, m, d) == [kind |-> "ok", y |-> y, m |-> m, d |-> d]
ParseDateError == [kind |-> "ParseDate", y |-> 0, m |-> 0, d |-> 0]

\* the year correction with the thresholds taken inclusively
InferYear_Inclusive(year, diff) ==
    IF diff <= -60 THEN year + 1 ELSE IF diff >= 60 THEN year - 1 ELSE year

\* diff.num_days() < -60: next year; > 60: last year; else the current year
InferYear(year, diff) ==
    IF diff < -60 THEN year + 1 ELSE IF diff > 60 THEN year - 1 ELSE year

\* Day::parse, the closure mapped over the date text: year is the first
\* reading of the clock, dnow the second
DayParseDate(d, year, dnow) ==
    LET first == SplitOnce(d, <<".">>) IN
    IF ~first.found THEN ParseDateError
    ELSE LET second == SplitOnce(first.after, <<".">>) IN
    IF ~second.found THEN ParseDateError
    ELSE LET month == ParseUnsigned(second.before)
             day == ParseUnsigned(first.before)
    IN IF ~month.ok \/ ~day.ok THEN ParseDateError
       ELSE IF ~FromYmdOpt(year, month.val, day.val) THEN ParseDateError
       ELSE LET y == InferYear(year, NumDays(Date(year, month.val, day.val), dnow))
            IN IF FromYmdOpt(y, month.val, day.val)
               THEN DateOk(y, month.val, day.val)
               ELSE ParseDateError

\* how the portal prints day d of month m: "d.m."
Decimal(n) == IF n < 10 THEN <<DIGITS[n + 1]>>
              ELSE <<DIGITS[(n \div 10) + 1], DIGITS[(n % 10) + 1]>>

Printed(d, m) == Decimal(d) \o <<".">> \o Decimal(m) \o <<".">>

PrintedDates == { Printed(d, m) : d \in 1..31, m \in 1..12 }

DateAlphabet == {"1", "2", ".", "x"}

ShortTexts == UNION { [1..n -> DateAlphabet] : n \in 0..MaxDateLen }

Years == {2023, 2024}

Todays == { Date(y, m, d) : y \in Years, m \in 1..12, d \in {1, 15, 29} }
              \cap { dt \in [y : Years, m : 1..12, d : 1..31] : FromYmdOpt(dt.y, dt.m, dt.d) }

\* the date text is decoded against the clock
DayParseDateApply ==
    /\ dateResult = NoDateResult
    /\ dateResult' = DayParseDate(dateText, today.y, today)
    /\ UNCHANGED <<today, dateText>>
    /\ UNCHANGED <<tokenVars, ctorVars, lessonVars, parseVars, fetchVars>>

InitDate ==
    /\ \/ today \in Todays /\ dateText \in PrintedDates
       \/ today = Date(2024, 1, 1) /\ dateText \in ShortTexts
    /\ dateResult = NoDateResult
    /\ now = 0
    /\ store = [token |-> 0, expiration |-> 0]
    /\ chan = <<>>
    /\ req = [r \in Requests |-> NewRequest]
    /\ apc = "recv"
    /\ cur = 0
    /\ inflight = 0
    /\ issued = 0
    /\ last = NoLast
    /\ CtorIdle
    /\ LessonIdle
    /\ ParseIdle
    /\ FetchIdle

NextDate == DayParseDateApply

SpecDate == InitDate /\ [][NextDate]_vars

\* the date text is d.m. for this day and month, printed as the portal does
IsPrinted(d, m) == dateText = Printed(d, m)

\* C8 as stated: with c = (Y, M, D), the result is (Y+1, M, D) when c is
\* more than 60 days before now, (Y-1, M, D) when more than 60 days after,
\* and c otherwise.
C8_YearInference ==
    dateResult # NoDateResult =>
        \A d \in 1..31, m \in 1..12 :
            (IsPrinted(d, m) /\ FromYmdOpt(today.y, m, d)) =>
                LET diff == NumDays(Date(today.y, m, d), today) IN
                /\ diff < -60 => dateResult = DateOk(today.y + 1, m, d)
                /\ diff > 60 => dateResult = DateOk(today.y - 1, m, d)
                /\ (diff >= -60 /\ diff <= 60) => dateResult = DateOk(today.y, m, d)

\* C8 amended: as stated whenever the corrected date exists; when c is 29
\* February and the year it is moved to has no 29 February, the result is
\* a ParseDate error. The two examples of the specification are included.
C8_YearInferenceWhenDateExists ==
    dateResult # NoDateResult =>
        /\ \A d \in 1..31, m \in 1..12 :
            (IsPrinted(d, m) /\ FromYmdOpt(today.y, m, d)) =>
                LET diff == NumDays(Date(today.y, m, d), today)
                    moved(y) == IF FromYmdOpt(y, m, d) THEN DateOk(y, m, d)
                                ELSE ParseDateError
                IN
                /\ diff < -60 => dateResult = moved(today.y + 1)
                /\ diff > 60 => dateResult = moved(today.y - 1)
                /\ (diff >= -60 /\ diff <= 60) => dateResult = DateOk(today.y, m, d)
                /\ dateResult = ParseDateError => (m = 2 /\ d = 29)
        /\ (today = Date(2024, 3, 1) /\ IsPrinted(15, 1)) => dateResult = DateOk(2024, 1, 15)
        /\ (today = Date(2024, 1, 1) /\ IsPrinted(15, 12)) => dateResult = DateOk(2023, 12, 15)

\* C8 witness: on 2024-01-01 the text "15.12." was decoded as 2023-12-15
C8_Witness ==
    /\ today = Date(2024, 1, 1) /\ IsPrinted(15, 12)
    /\ dateResult = DateOk(2023, 12, 15)

\* the text is exactly two runs of digits, each followed by a dot
IsDayMonth(s) ==
    \E i \in 1..Len(s) :
        /\ i > 1 /\ i < Len(s) - 1
        /\ s[i] = "." /\ s[Len(s)] = "."
        /\ \A k \in (1..(i - 1)) \cup ((i + 1)..(Len(s) - 1)) : IsDigit(s[k])

\* C9: every non-empty date text that is not two dot-separated numeric
\* components (d.m.) is rejected with ParseDate.
C9_RejectsMalformed ==
    (dateResult # NoDateResult /\ dateText # <<>> /\ ~IsDayMonth(dateText)) =>
        dateResult = ParseDateError

----------------------------------------------------------------------------
(* timetable/lesson.rs, timetable/lesson/parser.rs: one lesson entry *)

UPPER == <<"P", "I", "N", "K", "G", "R", "E">>
LOWER == <<"p", "i", "n", "k", "g", "r", "e">>

\* u8::to_ascii_lowercase
AsciiLower(c) ==
    IF \E k \in 1..Len(UPPER) : UPPER[k] = c
    THEN LOWER[CHOOSE k \in 1..Len(UPPER) : UPPER[k] = c]
    ELSE c

LowerStr(s) == [i \in 1..Len(s) |-> AsciiLower(s[i])]

PINK == <<"p", "i", "n", "k">>
GREEN == <<"g", "r", "e", "e", "n">>

\* the class is compared letter for letter
HasClass_CaseSensitive(e, name) == name \in e.classes

\* ElementRef::has_class(name, CaseSensitivity::AsciiCaseInsensitive)
HasClass(e, name) == \E c \in e.classes : LowerStr(c) = LowerStr(name)

\* util::single_iter: the only item of the iterator, else the error
SingleIter(items) == [ok |-> Len(items) = 1,
                      item |-> IF Len(items) = 1 THEN items[1] ELSE <<>>]

\* get_prop: the trimmed text of the single matching element's single text node
get_prop(elements) ==
    LET el == SingleIter(elements) IN
    IF ~el.ok THEN [ok |-> FALSE, s |-> <<>>]
    ELSE LET text == SingleIter(el.item) IN
         IF ~text.ok THEN [ok |-> FALSE, s |-> <<>>]
         ELSE [ok |-> TRUE, s |-> Trim(text.item)]

\* empty_string_as_none under #[serde(deserialize_with)] without a default:
\* a missing key and a non-string are errors, null and "" are None
EmptyStringAsNone(v) ==
    CASE v.j = "missing" -> [ok |-> FALSE, opt |-> None]
      [] v.j = "other" -> [ok |-> FALSE, opt |-> None]
      [] v.j = "null" -> [ok |-> TRUE, opt |-> None]
      [] OTHER -> [ok |-> TRUE, opt |-> IF v.s = <<>> THEN None ELSE Some(v.s)]

\* serde_json::from_str::<LessonData>: the variant named by "type", or ""
\* when the text is no JSON object, the tag is unknown or a field is
\* missing or ill-typed
Deserialize(p) ==
    IF p.form # "object" THEN ""
    ELSE CASE p.type = "atom" ->
                IF /\ EmptyStringAsNone(p.subjecttext).ok
                   /\ EmptyStringAsNone(p.teacher).ok
                   /\ EmptyStringAsNone(p.room).ok
                   /\ EmptyStringAsNone(p.group).ok
                   /\ EmptyStringAsNone(p.theme).ok
                   /\ p.rest
                THEN "atom" ELSE ""
           [] p.type = "removed" ->
                IF EmptyStringAsNone(p.subjecttext).ok THEN "removed" ELSE ""
           [] p.type = "absent" ->
                IF /\ EmptyStringAsNone(p.InfoAbsentName).ok
                   /\ EmptyStringAsNone(p.absentinfo).ok
                THEN "absent" ELSE ""
           [] OTHER -> ""

SEPARATOR == <<" ", "|", " ">>

\* parser::subject
subject(s) ==
    IF ~s.some THEN [ok |-> FALSE, err |-> MissingProperty("subjecttext"), s |-> <<>>]
    ELSE LET sp == SplitOnce(s.s, SEPARATOR) IN
         IF ~sp.found THEN [ok |-> FALSE, err |-> LessonErr("BadSubjectText"), s |-> <<>>]
         ELSE IF sp.before = <<>>
              THEN [ok |-> FALSE, err |-> LessonErr("BadSubjectText"), s |-> <<>>]
              ELSE [ok |-> TRUE, err |-> NoLesson, s |-> Trim(sp.before)]

\* the teacher abbreviation is looked up in every view
teacher_AbbrInEveryView(e, t, ttype) ==
    IF ~t.some /\ ttype.kind # "Teacher"
    THEN [ok |-> FALSE, err |-> MissingProperty("teacher"), name |-> <<>>, abbr |-> None]
    ELSE LET name == IF t.some THEN t.s ELSE ttype.id
             a == get_prop(e.bottom)
         IN IF ~a.ok
            THEN [ok |-> FALSE, err |-> MissingProperty("teacher_abbr"),
                  name |-> <<>>, abbr |-> None]
            ELSE [ok |-> TRUE, err |-> NoLesson, name |-> name, abbr |-> Some(a.s)]

\* parser::teacher
teacher(e, t, ttype) ==
    IF ~t.some /\ ttype.kind # "Teacher"
    THEN [ok |-> FALSE, err |-> MissingProperty("teacher"), name |-> <<>>, abbr |-> None]
    ELSE LET name == IF t.some THEN t.s ELSE ttype.id IN
         IF ttype.kind = "Teacher"
         THEN [ok |-> TRUE, err |-> NoLesson, name |-> name, abbr |-> None]
         ELSE LET a == get_prop(e.bottom) IN
              IF ~a.ok
              THEN [ok |-> FALSE, err |-> MissingProperty("teacher_abbr"),
                    name |-> <<>>, abbr |-> None]
              ELSE [ok |-> TRUE, err |-> NoLesson, name |-> name, abbr |-> Some(a.s)]

\* the class of the lesson is the payload's group in every view
ParseAtom_ClassFromGroup(e, ttype) ==
    LET p == e.detail
        subj == subject(EmptyStringAsNone(p.subjecttext).opt)
        abbr == get_prop(e.middle)
        tch == teacher(e, EmptyStringAsNone(p.teacher).opt, ttype)
        group == EmptyStringAsNone(p.group).opt
    IN
    IF ~subj.ok THEN subj.err
    ELSE IF ~abbr.ok THEN MissingProperty("abbr")
    ELSE IF ~tch.ok THEN tch.err
    ELSE IF ttype.kind # "Class" /\ ~group.some THEN MissingProperty("group")
    ELSE Lesson(IF HasClass(e, PINK) THEN "Substitution" ELSE "Regular", "",
                group.s, subj.s, abbr.s, tch.name, tch.abbr,
                EmptyStringAsNone(p.room).opt, group,
                EmptyStringAsNone(p.theme).opt, <<>>)

\* parse_single, LessonData::Regular
ParseAtom(e, ttype) ==
    LET p == e.detail
        subj == subject(EmptyStringAsNone(p.subjecttext).opt)
        abbr == get_prop(e.middle)
        tch == teacher(e, EmptyStringAsNone(p.teacher).opt, ttype)
        group == EmptyStringAsNone(p.group).opt
    IN
    IF ~subj.ok THEN subj.err
    ELSE IF ~abbr.ok THEN MissingProperty("abbr")
    ELSE IF ~tch.ok THEN tch.err
    ELSE IF ttype.kind # "Class" /\ ~group.some THEN MissingProperty("group")
    ELSE Lesson(IF HasClass(e, PINK) THEN "Substitution" ELSE "Regular", "",
                IF ttype.kind = "Class" THEN ttype.id ELSE group.s,
                subj.s, abbr.s, tch.name, tch.abbr,
                EmptyStringAsNone(p.room).opt, group,
                EmptyStringAsNone(p.theme).opt, <<>>)

\* an absent entry is decoded without looking at its classes
ParseAbsent_Unchecked(e) ==
    LET info == EmptyStringAsNone(e.detail.InfoAbsentName).opt
        abbr == EmptyStringAsNone(e.detail.absentinfo).opt
    IN
    IF ~info.some THEN MissingProperty("info_absent_name")
    ELSE IF ~abbr.some THEN MissingProperty("absent_info")
    ELSE Lesson("Absent", "", <<>>, <<>>, abbr.s, <<>>, None, None, None, None, info.s)

\* parse_single, LessonData::Absent
ParseAbsent(e) ==
    LET info == EmptyStringAsNone(e.detail.InfoAbsentName).opt
        abbr == EmptyStringAsNone(e.detail.absentinfo).opt
    IN
    IF ~HasClass(e, GREEN) THEN LessonErr("DataTypeMismatch")
    ELSE IF ~info.some THEN MissingProperty("info_absent_name")
    ELSE IF ~abbr.some THEN MissingProperty("absent_info")
    ELSE Lesson("Absent", "", <<>>, <<>>, abbr.s, <<>>, None, None, None, None, info.s)

\* a removed entry is taken as canceled on its payload type alone
ParseRemoved_Unchecked(e) == Canceled

\* parse_single, LessonData::Canceled
ParseRemoved(e) ==
    IF HasClass(e, PINK) THEN Canceled ELSE LessonErr("DataTypeMismatch")

\* parse_single
parse_single(e, ttype) ==
    IF e.detail.form = "absent" THEN LessonErr("NoData")
    ELSE LET variant == Deserialize(e.detail) IN
         CASE variant = "atom" -> ParseAtom(e, ttype)
           [] variant = "absent" -> ParseAbsent(e)
           [] variant = "removed" -> ParseRemoved(e)
           [] OTHER -> LessonErr("Json")

\* the inputs of the model
TextM == <<"M">>

SubjectTexts ==
    { JMissing, JNull, JStr(<<>>), JStr(TextM \o SEPARATOR \o <<"x">>), JStr(TextM),
      JStr(SEPARATOR \o <<"x">>), JStr(<<" ">> \o SEPARATOR \o <<"x">>), JOther }

Payloads ==
    {NoAttr, BadJson}
    \cup { Payload("object", "other", JNull, JNull, JNull, JNull, JNull, TRUE, JNull, JNull) }
    \cup { Payload("object", "removed", st, JNull, JNull, JNull, JNull, TRUE, JNull, JNull) :
             st \in SubjectTexts }
    \cup { Payload("object", "absent", JNull, JNull, JNull, JNull, JNull, TRUE, i, a) :
             i \in {JMissing, JNull, JStr(<<>>), JStr(<<"i">>)},
             a \in {JNull, JStr(<<"a">>), JOther} }
    \cup { Payload("object", "atom", st, t, g, rt, rt, rest, JNull, JNull) :
             st \in SubjectTexts, t \in {JMissing, JNull, JStr(<<"t">>)},
             g \in {JMissing, JNull, JStr(<<>>), JStr(<<"g">>)}, rt \in {JStr(<<>>), JStr(<<"r">>)},
             rest \in BOOLEAN }

ClassSets ==
    { {}, {PINK}, {<<"P", "I", "N", "K">>}, {GREEN}, {PINK, <<"G", "r", "e", "e", "n">>} }

Elements == { <<>>, << <<<<" ", "e">>>> >>, << <<<<"e">>>>, <<<<"f">>>> >>, << <<>> >> }

Entries ==
    { Entry(cs, p, m, b) : cs \in ClassSets, p \in Payloads, m \in Elements,
                           b \in {<<>>, << <<<<"b">>>> >>} }

\* the teachers of the Session's directory: display name -> id
TEACHERS == MapInsert(EmptyMap, <<"N">>, <<"T">>)

\* Bakalari::get_teacher of a listed name
get_teacher(teachers, name) == Type("Teacher", teachers[name])

Types == { get_teacher(TEACHERS, <<"N">>), Type("Class", <<"C">>), Type("Room", <<"R">>) }

ParseSingleApply ==
    /\ lessonResult = NoLesson
    /\ lessonResult' = parse_single(entry, tableType)
    /\ UNCHANGED <<tableType, entry>>
    /\ UNCHANGED <<tokenVars, ctorVars, dateVars, parseVars, fetchVars>>

InitLesson ==
    /\ tableType \in Types
    /\ entry \in Entries
    /\ lessonResult = NoLesson
    /\ now = 0
    /\ store = [token |-> 0, expiration |-> 0]
    /\ chan = <<>>
    /\ req = [r \in Requests |-> NewRequest]
    /\ apc = "recv"
    /\ cur = 0
    /\ inflight = 0
    /\ issued = 0
    /\ last = NoLast
    /\ CtorIdle
    /\ DateIdle
    /\ ParseIdle
    /\ FetchIdle

NextLesson == ParseSingleApply

SpecLesson == InitLesson /\ [][NextLesson]_vars

\* the entry carries the "pink" class in some letter case
CarriesPink == \E c \in entry.classes : c \in {<<"p", "i", "n", "k">>, <<"P", "I", "N", "K">>}

\* the payload is a JSON object of type "removed" that deserializes: its
\* subjecttext is a string (any text, also empty) or null
IsRemovedPayload ==
    /\ entry.detail.form = "object" /\ entry.detail.type = "removed"
    /\ entry.detail.subjecttext.j \in {"str", "null"}

\* C10: an entry of payload type "removed" decodes to Canceled only with
\* the "pink" class; without it the result is DataTypeMismatch; with it
\* the result is the fieldless Canceled whatever the payload's text; and
\* nothing else decodes to Canceled.
C10_RemovedNeedsPink ==
    lessonResult # NoLesson =>
        /\ lessonResult.kind = "Canceled" =>
              /\ entry.detail.type = "removed" /\ CarriesPink
              /\ lessonResult = Bare("Canceled", "")
        /\ (IsRemovedPayload /\ ~CarriesPink) => lessonResult = Bare("DataTypeMismatch", "")
        /\ (IsRemovedPayload /\ CarriesPink) => lessonResult = Bare("Canceled", "")

\* C10 witness: a removed entry with class PINK and a non-empty subjecttext
\* was decoded as Canceled
C10_Witness ==
    /\ IsRemovedPayload /\ entry.detail.subjecttext.s # <<>>
    /\ <<"P", "I", "N", "K">> \in entry.classes
    /\ lessonResult = Bare("Canceled", "")

\* the entry carries the "green" class in some letter case
CarriesGreen ==
    \E c \in entry.classes : c \in {<<"g", "r", "e", "e", "n">>, <<"G", "r", "e", "e", "n">>}

\* the payload is a JSON object of type "absent"
IsAbsentPayload == entry.detail.form = "object" /\ entry.detail.type = "absent"

\* a payload field holds a value: a non-empty string
Present(v) == v.j = "str" /\ v.s # <<>>

\* a payload field is given without a value: null or the empty string
Empty(v) == v.j = "null" \/ (v.j = "str" /\ v.s = <<>>)

\* C11 as stated, for payloads whose two fields are a string, null or not
\* given: an absent entry decodes to Absent only with the "green" class and
\* both fields present; without green the result is DataTypeMismatch; with
\* green and a field that is not present (no key, null or empty) the result is
\* MissingProperty naming that field.
C11_AbsentNeedsGreenAndFields ==
    LET info == entry.detail.InfoAbsentName
        abbr == entry.detail.absentinfo
    IN (/\ lessonResult # NoLesson /\ IsAbsentPayload
        /\ info.j # "other" /\ abbr.j # "other") =>
           /\ lessonResult.kind = "Absent" =>
                 CarriesGreen /\ Present(info) /\ Present(abbr)
           /\ ~CarriesGreen => lessonResult = LessonErr("DataTypeMismatch")
           /\ (CarriesGreen /\ ~Present(info)) =>
                 lessonResult = MissingProperty("info_absent_name")
           /\ (CarriesGreen /\ Present(info) /\ ~Present(abbr)) =>
                 lessonResult = MissingProperty("absent_info")

\* C11 amended: the same for payloads in which both keys are given as a
\* string or null; a field is missing when it is null or the empty string
\* (info_absent_name is looked at first); a payload in which a key is not
\* given, or holds another JSON type, fails with a Json error whatever the
\* class.  Nothing else decodes to Absent.
C11_AbsentNeedsGreenAndGivenFields ==
    lessonResult # NoLesson =>
        LET info == entry.detail.InfoAbsentName
            abbr == entry.detail.absentinfo
            given == (Present(info) \/ Empty(info)) /\ (Present(abbr) \/ Empty(abbr))
        IN /\ lessonResult.kind = "Absent" =>
                 /\ IsAbsentPayload /\ CarriesGreen /\ Present(info) /\ Present(abbr)
                 /\ lessonResult = Lesson("Absent", "", <<>>, <<>>, abbr.s, <<>>,
                                          None, None, None, None, info.s)
           /\ (IsAbsentPayload /\ given /\ ~CarriesGreen) =>
                 lessonResult = LessonErr("DataTypeMismatch")
           /\ (IsAbsentPayload /\ given /\ CarriesGreen /\ Empty(info)) =>
                 lessonResult = MissingProperty("info_absent_name")
           /\ (IsAbsentPayload /\ given /\ CarriesGreen /\ Present(info) /\ Empty(abbr)) =>
                 lessonResult = MissingProperty("absent_info")
           /\ (IsAbsentPayload /\ ~given) => lessonResult = LessonErr("Json")

\* C11 witness: a green entry without an abbreviation was refused with
\* MissingProperty("absent_info")
C11_Witness ==
    /\ IsAbsentPayload /\ CarriesGreen
    /\ Present(entry.detail.InfoAbsentName) /\ Empty(entry.detail.absentinfo)
    /\ lessonResult = MissingProperty("absent_info")

\* the payload is a JSON object of type "atom"
IsAtomPayload == entry.detail.form = "object" /\ entry.detail.type = "atom"

\* the entry was decoded to a lesson that is held
Decoded == lessonResult.kind \in {"Regular", "Substitution"}

\* the entry with the "pink" class taken away, or given when it has none
TogglePink(e) ==
    [e EXCEPT !.classes = IF CarriesPink
                          THEN e.classes \ {<<"p", "i", "n", "k">>, <<"P", "I", "N", "K">>}
                          ELSE e.classes \cup {PINK}]

\* C12: a decoded atom entry is a Substitution exactly when it carries the
\* "pink" class and Regular otherwise; the same entry with the class toggled
\* decodes to the other variant with the same field values; only atom
\* entries decode to these variants.
C12_SubstitutionIffPink ==
    Decoded =>
        /\ IsAtomPayload
        /\ lessonResult.kind = "Substitution" <=> CarriesPink
        /\ LET other == parse_single(TogglePink(entry), tableType)
           IN /\ other.kind \in {"Regular", "Substitution"}
              /\ other.kind # lessonResult.kind
              /\ [other EXCEPT !.kind = lessonResult.kind] = lessonResult

\* C12 witness: an entry with class PINK in capitals was decoded as a
\* Substitution
C12_Witness ==
    /\ lessonResult.kind = "Substitution"
    /\ entry.classes = {<<"P", "I", "N", "K">>}

\* the payload and the elements before div.bottom decode: the subject, the
\* short code and the teacher of parse_single
DecodesUpToTeacherAbbr ==
    /\ IsAtomPayload /\ Deserialize(entry.detail) = "atom"
    /\ subject(EmptyStringAsNone(entry.detail.subjecttext).opt).ok
    /\ get_prop(entry.middle).ok
    /\ (Present(entry.detail.teacher) \/ tableType.kind = "Teacher")

\* C13: in a Teacher view an atom entry decodes with or without a div.bottom
\* element and teacher_abbr is absent; in a Class or Room view an entry that
\* decodes so far fails with MissingProperty("teacher_abbr") without the
\* element, and a decoded entry holds its trimmed text.
C13_TeacherAbbrByView ==
    lessonResult # NoLesson =>
        /\ (Decoded /\ tableType.kind = "Teacher") =>
              /\ lessonResult.teacher_abbr = None
              /\ parse_single([entry EXCEPT !.bottom = <<>>], tableType) = lessonResult
        /\ (DecodesUpToTeacherAbbr /\ tableType.kind # "Teacher" /\ Len(entry.bottom) # 1) =>
              lessonResult = MissingProperty("teacher_abbr")
        /\ (Decoded /\ tableType.kind # "Teacher") =>
              /\ Len(entry.bottom) = 1 /\ Len(entry.bottom[1]) = 1
              /\ lessonResult.teacher_abbr = Some(Trim(entry.bottom[1][1]))

\* C13 witness: in a Teacher view an entry without div.bottom was decoded
C13_Witness ==
    /\ Decoded /\ tableType.kind = "Teacher"
    /\ entry.bottom = <<>>
    /\ lessonResult.teacher_abbr = None

\* the display name under which the viewed teacher is listed
ViewedTeacherName == CHOOSE n \in DOMAIN TEACHERS : TEACHERS[n] = tableType.id

\* C14: the teacher of a decoded atom entry is the payload's teacher in a
\* Class or Room view and the viewed teacher's name in a Teacher view,
\* whatever the payload holds.
C14_TeacherByView ==
    Decoded =>
        lessonResult.teacher =
            IF tableType.kind = "Teacher" THEN ViewedTeacherName
            ELSE entry.detail.teacher.s

\* the atom payload's other fields, and the elements, decode: all but group
DecodesButGroup ==
    /\ IsAtomPayload /\ entry.detail.rest
    /\ \A v \in {entry.detail.subjecttext, entry.detail.teacher,
                 entry.detail.room, entry.detail.theme} : Present(v) \/ Empty(v)
    /\ subject(EmptyStringAsNone(entry.detail.subjecttext).opt).ok
    /\ get_prop(entry.middle).ok
    /\ teacher(entry, EmptyStringAsNone(entry.detail.teacher).opt, tableType).ok

\* C15 as stated: the class of a decoded atom entry is the selector's value
\* in a Class view and the payload's group in the other views; in a Teacher
\* or Room view an entry that decodes otherwise and whose group is not given,
\* null or empty fails with MissingProperty("group").
C15_ClassBySelector ==
    lessonResult # NoLesson =>
        /\ Decoded =>
              lessonResult.class =
                  IF tableType.kind = "Class" THEN tableType.id ELSE entry.detail.group.s
        /\ (DecodesButGroup /\ tableType.kind # "Class" /\ ~Present(entry.detail.group)) =>
              lessonResult = MissingProperty("group")

\* C15 amended: the same, with the failure MissingProperty("group") for a
\* group given as null or the empty string; a payload in which the group key
\* is not given fails with a Json error in every view.
C15_ClassBySelectorGivenGroup ==
    lessonResult # NoLesson =>
        /\ Decoded =>
              /\ lessonResult.class =
                    IF tableType.kind = "Class" THEN tableType.id ELSE entry.detail.group.s
              /\ tableType.kind # "Class" => Present(entry.detail.group)
        /\ (DecodesButGroup /\ tableType.kind # "Class" /\ Empty(entry.detail.group)) =>
              lessonResult = MissingProperty("group")
        /\ (IsAtomPayload /\ entry.detail.group.j = "missing") =>
              lessonResult = LessonErr("Json")

\* C15 witness: in a Class view an entry with a group was decoded with the
\* selector's value as its class
C15_Witness ==
    /\ Decoded /\ tableType = Type("Class", <<"C">>)
    /\ entry.detail.group = JStr(<<"g">>)
    /\ lessonResult.class = <<"C">>

\* C16: the subject of a decoded atom entry is the trimmed first segment of
\* subjecttext and is never empty; a subjecttext that is empty, has no
\* separator or has an empty first segment fails with BadSubjectText.
C16_SubjectNeverEmpty ==
    lessonResult # NoLesson =>
        /\ Decoded => lessonResult.subject # <<>>
        /\ (IsAtomPayload /\ Deserialize(entry.detail) = "atom"
            /\ entry.detail.subjecttext.j = "str"
            /\ \/ entry.detail.subjecttext.s = <<>>
               \/ ~SplitOnce(entry.detail.subjecttext.s, SEPARATOR).found
               \/ SplitOnce(entry.detail.subjecttext.s, SEPARATOR).before = <<>>) =>
              lessonResult = LessonErr("BadSubjectText")

----------------------------------------------------------------------------
(* timetable/hour.rs: one hour header *)

\* a div.bk-hour-wrapper: its div.num elements and its div.hour > span
\* elements, each the sequence of its text nodes
HourBlock(num, times) == [num |-> num, times |-> times]

\* the text of a time: "hh:mm" (any numbers), or a text of another form
TimeText(h, m) == [form |-> "hh:mm", h |-> h, m |-> m]
NoTimeText == [form |-> "other", h |-> 0, m |-> 0]

\* NaiveTime::parse_from_str(text, "%H:%M"), in minutes since midnight
ParseTime(t) ==
    IF t.form = "hh:mm" /\ t.h \in 0..23 /\ t.m \in 0..59
    THEN [ok |-> TRUE, min |-> 60 * t.h + t.m]
    ELSE [ok |-> FALSE, min |-> 0]

HourOk(start, duration) == [kind |-> "ok", start |-> start, duration |-> duration]
HourErr(e) == [kind |-> e, start |-> 0, duration |-> 0]

\* the printed number is not compared with the position
NumMatches_Unchecked(num, i) == TRUE

\* num != i + 1 is MismatchedNum
NumMatches(num, i) == num = i + 1

\* Hour::parse(hour, i), i counted from 0
HourParse(hour, i) ==
    LET numEl == SingleIter(hour.num) IN
    IF ~numEl.ok THEN HourErr("NoNum")
    ELSE LET numText == SingleIter(numEl.item) IN
    IF ~numText.ok THEN HourErr("NoNumText")
    ELSE LET num == ParseUnsigned(numText.item) IN
    IF ~num.ok THEN HourErr("ParseNum")
    ELSE IF ~NumMatches(num.val, i) THEN HourErr("MismatchedNum")
    ELSE IF Len(hour.times) = 0 THEN HourErr("NoFrom")
    ELSE IF Len(hour.times) = 1 THEN HourErr("NoDash")
    ELSE IF Len(hour.times) # 3 THEN HourErr("NoTo")
    ELSE LET fromText == SingleIter(hour.times[1])
             toText == SingleIter(hour.times[3])
    IN IF ~fromText.ok THEN HourErr("NoFromText")
       ELSE LET from == ParseTime(fromText.item) IN
       IF ~from.ok THEN HourErr("ParseFrom")
       ELSE IF ~toText.ok THEN HourErr("NoToText")
       ELSE LET to == ParseTime(toText.item) IN
       IF ~to.ok THEN HourErr("ParseTo")
       ELSE HourOk(from.min, to.min - from.min)

----------------------------------------------------------------------------
(* timetable/day.rs, timetable/lesson.rs: one day row *)

\* a div.bk-timetable-row: its span.bk-day-date elements (each the sequence
\* of its text nodes) and its div.bk-timetable-cell elements; a cell is the
\* sequence of its div.day-item elements, each the sequence of its
\* div.day-item-hover entries
DayRow(dates, cells) == [dates |-> dates, cells |-> cells]

DayOk(date, lessons) == [kind |-> "ok", date |-> date, lessons |-> lessons]
DayErr(e) == [kind |-> e, date |-> NoDateResult, lessons |-> <<>>]

IsLessonError(l) == l.kind \notin {"Regular", "Substitution", "Canceled", "Absent"}

\* item.select(..).map(parse_single).collect::<Result<Vec<_>, _>>()
RECURSIVE ParseEntries(_, _, _)
ParseEntries(entries, ttype, acc) ==
    IF entries = <<>> THEN [ok |-> TRUE, lessons |-> acc]
    ELSE LET l == parse_single(Head(entries), ttype) IN
         IF IsLessonError(l) THEN [ok |-> FALSE, lessons |-> <<>>]
         ELSE ParseEntries(Tail(entries), ttype, Append(acc, l))

\* Lesson::parse: the entries of the first div.day-item, none without one
LessonParse(cell, ttype) ==
    IF cell = <<>> THEN [ok |-> TRUE, lessons |-> <<>>]
    ELSE ParseEntries(cell[1], ttype, <<>>)

\* day.select(..).map(Lesson::parse).collect::<Result<Vec<_>, _>>()
RECURSIVE ParseCells(_, _, _)
ParseCells(cells, ttype, acc) ==
    IF cells = <<>> THEN [ok |-> TRUE, lessons |-> acc]
    ELSE LET c == LessonParse(Head(cells), ttype) IN
         IF ~c.ok THEN [ok |-> FALSE, lessons |-> <<>>]
         ELSE ParseCells(Tail(cells), ttype, Append(acc, c.lessons))

\* Day::parse
DayParse(row, ttype, dnow) ==
    LET el == SingleIter(row.dates) IN
    IF ~el.ok THEN DayErr("NoDate")
    ELSE IF Len(el.item) > 1 THEN DayErr("NoDate")
    ELSE LET date == IF el.item = <<>> THEN NoDateResult
                     ELSE DayParseDate(Trim(el.item[1]), dnow.y, dnow)
         IN IF date = ParseDateError THEN DayErr("ParseDate")
            ELSE LET cells == ParseCells(row.cells, ttype, <<>>) IN
                 IF ~cells.ok THEN DayErr("Lesson")
                 ELSE DayOk(date, cells.lessons)

----------------------------------------------------------------------------
(* timetable.rs: Timetable::parse *)

TimetableOk(hours, days) == [kind |-> "ok", err |-> "", hours |-> hours, days |-> days]
TimetableErr(kind, e) == [kind |-> kind, err |-> e, hours |-> <<>>, days |-> <<>>]

\* the next hour header is decoded: .enumerate().map(Hour::parse)
ParseHour ==
    /\ ppc = "hours"
    /\ Len(phours) < Len(page.hours)
    /\ LET i == Len(phours)
           h == HourParse(page.hours[i + 1], i)
       IN IF h.kind = "ok"
          THEN /\ phours' = Append(phours, h)
               /\ UNCHANGED <<ppc, presult>>
          ELSE /\ presult' = TimetableErr("Hour", h.kind)
               /\ ppc' = "done"
               /\ UNCHANGED phours
    /\ UNCHANGED <<page, pdays>>
    /\ UNCHANGED <<tokenVars, ctorVars, dateVars, lessonVars, fetchVars>>

\* the day rows are decoded whether or not the hour headers all were
HoursCollected_Early ==
    /\ ppc = "hours"
    /\ ppc' = "days"
    /\ UNCHANGED <<page, phours, pdays, presult>>
    /\ UNCHANGED <<tokenVars, ctorVars, dateVars, lessonVars, fetchVars>>

\* .collect::<Result<Vec<_>, _>>()? : every hour header was decoded
HoursCollected ==
    /\ ppc = "hours"
    /\ Len(phours) = Len(page.hours)
    /\ ppc' = "days"
    /\ UNCHANGED <<page, phours, pdays, presult>>
    /\ UNCHANGED <<tokenVars, ctorVars, dateVars, lessonVars, fetchVars>>

\* the next day row is decoded: .map(Day::parse)
ParseDay ==
    /\ ppc = "days"
    /\ Len(pdays) < Len(page.days)
    /\ LET d == DayParse(page.days[Len(pdays) + 1], tableType, today)
       IN IF d.kind = "ok"
          THEN /\ pdays' = Append(pdays, d)
               /\ UNCHANGED <<ppc, presult>>
          ELSE /\ presult' = TimetableErr("Day", d.kind)
               /\ ppc' = "done"
               /\ UNCHANGED pdays
    /\ UNCHANGED <<page, phours>>
    /\ UNCHANGED <<tokenVars, ctorVars, dateVars, lessonVars, fetchVars>>

\* .collect::<Result<Vec<_>, _>>()? ; Ok(Self { hours, days })
DaysCollected ==
    /\ ppc = "days"
    /\ Len(pdays) = Len(page.days)
    /\ presult' = TimetableOk(phours, pdays)
    /\ ppc' = "done"
    /\ UNCHANGED <<page, phours, pdays>>
    /\ UNCHANGED <<tokenVars, ctorVars, dateVars, lessonVars, fetchVars>>

\* the pages of the model
GoodTimes(n) == << <<TimeText(7 + n, 0)>>, <<NoTimeText>>, <<TimeText(7 + n, 45)>> >>
BadTimes == << <<NoTimeText>>, <<NoTimeText>>, <<TimeText(8, 45)>> >>

\* a well-formed header printing the number n
GoodBlock(n) == HourBlock(<< <<Decimal(n)>> >>, GoodTimes(n))

HourBlocks ==
    { GoodBlock(n) : n \in 1..(MaxHours + 1) }
    \cup { HourBlock(<< <<Decimal(1)>> >>, BadTimes),
           HourBlock(<< <<<<"x">>>> >>, GoodTimes(1)),
           HourBlock(<<>>, GoodTimes(1)) }

SeqsUpTo(S, n) == UNION { [1..k -> S] : k \in 0..n }

RemovedPayload ==
    Payload("object", "removed", JStr(TextM), JNull, JNull, JNull, JNull, TRUE, JNull, JNull)

\* cells: without a day item, with a canceled lesson, with an entry that
\* fails to decode
EmptyCell == <<>>
GoodCell == << <<Entry({PINK}, RemovedPayload, <<>>, <<>>)>> >>
BadCell == << <<Entry({}, RemovedPayload, <<>>, <<>>)>> >>

CellLists ==
    { <<>>, <<EmptyCell>>, <<GoodCell, EmptyCell>>, <<BadCell>>,
      <<GoodCell, GoodCell, EmptyCell>> }

DayRows ==
    { DayRow(d, c) : d \in { << <<>> >>, << <<Printed(1, 1)>> >>, << <<<<"x">>>> >> },
                     c \in CellLists }

Pages == [hours : SeqsUpTo(HourBlocks, MaxHours), days : SeqsUpTo(DayRows, 2)]

InitParse ==
    /\ page \in Pages
    /\ ppc = "hours"
    /\ phours = <<>>
    /\ pdays = <<>>
    /\ presult = NoTimetable
    /\ today = Date(2024, 1, 1)
    /\ dateText = <<>>
    /\ dateResult = NoDateResult
    /\ tableType = Type("Class", <<"C">>)
    /\ entry = Entry({}, NoAttr, <<>>, <<>>)
    /\ lessonResult = NoLesson
    /\ now = 0
    /\ store = [token |-> 0, expiration |-> 0]
    /\ chan = <<>>
    /\ req = [r \in Requests |-> NewRequest]
    /\ apc = "recv"
    /\ cur = 0
    /\ inflight = 0
    /\ issued = 0
    /\ last = NoLast
    /\ CtorIdle
    /\ FetchIdle

NextParse ==
    \/ ParseHour
    \/ HoursCollected
    \/ ParseDay
    \/ DaysCollected

SpecParse == InitParse /\ [][NextParse]_vars

\* C6: in every Timetable that parse returns, each Day has as many lesson
\* slots as there are Hours (a page whose day rows have another number of
\* cells than it has hour headers is rejected).
C6_CellsMatchHours ==
    (ppc = "done" /\ presult.kind = "ok") =>
        \A k \in 1..Len(presult.days) :
            Len(presult.days[k].lessons) = Len(presult.hours)

\* the first k headers are well formed and print 1..k
GoodUpTo(k) == \A j \in 1..k : j <= Len(page.hours) /\ page.hours[j] = GoodBlock(j)

\* the headers before the k-th are well formed, whatever number they print
ValidBefore(k) ==
    \A j \in 1..(k - 1) : \E n \in 1..(MaxHours + 1) : page.hours[j] = GoodBlock(n)

\* header k prints a number other than k (its times may be anything)
PrintsOther(k) ==
    /\ k <= Len(page.hours)
    /\ \E n \in 1..(MaxHours + 1) :
          n # k /\ page.hours[k].num = << <<Decimal(n)>> >>

\* C7: of well-formed hour headers in document order: when they print
\* 1..N, N Hours are decoded, in the same order; when the k-th prints a
\* number other than k, the headers are never all decoded, no Hour is decoded
\* for the k-th, and parse fails with MismatchedNum.
C7_HoursNumbered ==
    /\ (GoodUpTo(Len(page.hours)) /\ ppc \in {"days", "done"}) =>
          /\ presult.kind # "Hour"
          /\ Len(phours) = Len(page.hours)
          /\ \A k \in 1..Len(phours) : phours[k] = HourOk(60 * (7 + k), 45)
    /\ \A k \in 1..MaxHours :
          (PrintsOther(k) /\ ValidBefore(k)) =>
              /\ ppc \in {"hours", "done"}
              /\ Len(phours) < k
              /\ ppc = "done" => presult = TimetableErr("Hour", "MismatchedNum")

\* C7 witness: two well-formed headers both printing 1: the first was
\* decoded, the second failed with MismatchedNum
C7_Witness ==
    /\ page.hours = <<GoodBlock(1), GoodBlock(1)>>
    /\ Len(phours) = 1
    /\ presult = TimetableErr("Hour", "MismatchedNum")

\* the hour headers and the day rows of the page that fail to decode
BadHours ==
    { k \in 1..Len(page.hours) : HourParse(page.hours[k], k - 1).kind # "ok" }

BadDays ==
    { k \in 1..Len(page.days) : DayParse(page.days[k], tableType, today).kind # "ok" }

\* the cells of a row that hold an entry that fails to decode
BadCells(row) ==
    { c \in 1..Len(row.cells) :
        /\ row.cells[c] # <<>>
        /\ \E e \in 1..Len(row.cells[c][1]) :
              IsLessonError(parse_single(row.cells[c][1][e], tableType)) }

First(S) == CHOOSE k \in S : \A j \in S : k <= j

\* C26: decoding is fail-fast in document order: hours before days; the
\* first hour header, day row, cell or entry that fails ends the parse with
\* its error, nothing after it is decoded, and an hour error comes before
\* any day error of the page.
C26_FailFast ==
    /\ ppc = "hours" => pdays = <<>>
    /\ ppc = "days" => Len(phours) = Len(page.hours) /\ BadHours = {}
    /\ BadHours # {} =>
          /\ Len(phours) < First(BadHours)
          /\ pdays = <<>>
          /\ ppc = "done" =>
                /\ Len(phours) = First(BadHours) - 1
                /\ presult = TimetableErr("Hour",
                                HourParse(page.hours[First(BadHours)],
                                          First(BadHours) - 1).kind)
    /\ (BadHours = {} /\ BadDays # {}) =>
          /\ Len(pdays) < First(BadDays)
          /\ ppc = "done" =>
                /\ Len(pdays) = First(BadDays) - 1
                /\ presult = TimetableErr("Day",
                                DayParse(page.days[First(BadDays)], tableType, today).kind)
    /\ \A k \in 1..Len(page.days) :
          (k <= Len(pdays) \/ presult.kind = "ok") => BadCells(page.days[k]) = {}
    /\ (ppc = "done" /\ BadHours = {} /\ BadDays = {}) => presult = TimetableOk(phours, pdays)

\* C26 witness: the second hour header failed on a page whose first day
\* row fails too: the parse ended with the hour error, one Hour decoded and
\* no Day
C26_Witness ==
    /\ ppc = "done"
    /\ BadHours = {2}
    /\ 1 \in BadDays
    /\ Len(phours) = 1 /\ pdays = <<>>
    /\ presult.kind = "Hour"

----------------------------------------------------------------------------
(* timetable.rs: Timetable::parse as a function of the document *)

\* collect::<Result<Vec<_>, _>>(): the items when all are Ok, else the
\* first error
Collect(results) ==
    LET bad == { k \in 1..Len(results) : results[k].kind # "ok" } IN
    IF bad = {} THEN [ok |-> TRUE, err |-> "", items |-> results]
    ELSE [ok |-> FALSE, err |-> results[CHOOSE k \in bad : \A j \in bad : k <= j].kind,
          items |-> <<>>]

\* document.select(HOUR).enumerate().map(Hour::parse).collect()
ParseHours(blocks) ==
    Collect([k \in 1..Len(blocks) |-> HourParse(blocks[k], k - 1)])

\* document.select(DAY).map(Day::parse).collect()
ParseDays(rows, ttype, dnow) ==
    Collect([k \in 1..Len(rows) |-> DayParse(rows[k], ttype, dnow)])

\* the ? after each collect, and Ok(Self { hours, days })
TimetableOf(hours, days) ==
    IF ~hours.ok THEN TimetableErr("Hour", hours.err)
    ELSE IF ~days.ok THEN TimetableErr("Day", days.err)
    ELSE TimetableOk(hours.items, days.items)

\* Timetable::parse
TimetableParse(doc, ttype, dnow) ==
    TimetableOf(ParseHours(doc.hours), ParseDays(doc.days, ttype, dnow))

----------------------------------------------------------------------------
(* bakalari.rs, bakalari/timetable.rs, bakalari/other.rs, auth.rs: the  *)
(* fetches of a Session                                                  *)

\* number of fetches a Session makes after its directory fetch
MaxFetches == 2

\* "BakaAuth=<token>"
AuthCookie(token) == [sent |-> TRUE, name |-> AUTH_COOKIE, token |-> token]

\* a bare token is renewed like a stored one
AuthGetToken_RenewBare(auth, st, t, resp) ==
    IF auth.kind = "None"
    THEN [result |-> Ok(0), store |-> st, logins |-> 0]
    ELSE IF ~TempTokenExpired(st, t)
    THEN [result |-> Ok(st.token), store |-> st, logins |-> 0]
    ELSE LET res == Login(resp) IN
         [result |-> res,
          store |-> IF res.kind = "ok" THEN TempTokenNew(res.token, t) ELSE st,
          logins |-> 1]

\* a failed login is made a second time before its error is returned
AuthGetToken_RetryLogin(auth, st, t, resp) ==
    CASE auth.kind = "Token" -> [result |-> Ok(auth.token), store |-> st, logins |-> 0]
      [] auth.kind = "None" -> [result |-> Ok(0), store |-> st, logins |-> 0]
      [] OTHER ->
            IF ~TempTokenExpired(st, t)
            THEN [result |-> Ok(st.token), store |-> st, logins |-> 0]
            ELSE LET res == Login(resp) IN
                 [result |-> res,
                  store |-> IF res.kind = "ok" THEN TempTokenNew(res.token, t) ELSE st,
                  logins |-> IF res.kind = "ok" THEN 1 ELSE 2]

\* Auth::get_token: the bare token as it is, the empty string without
\* authentication, and for Credentials the answer of the task that owns the
\* store: the cached token, or the outcome of a login answered with resp
AuthGetToken(auth, st, t, resp) ==
    CASE auth.kind = "Token" -> [result |-> Ok(auth.token), store |-> st, logins |-> 0]
      [] auth.kind = "None" -> [result |-> Ok(0), store |-> st, logins |-> 0]
      [] OTHER ->
            IF ~TempTokenExpired(st, t)
            THEN [result |-> Ok(st.token), store |-> st, logins |-> 0]
            ELSE LET res == Login(resp) IN
                 [result |-> res,
                  store |-> IF res.kind = "ok" THEN TempTokenNew(res.token, t) ELSE st,
                  logins |-> 1]

\* the documents a timetable fetch is answered with
EmptyDocument == [hours |-> <<>>, days |-> <<>>]

BodyDocuments ==
    { EmptyDocument,
      [hours |-> <<GoodBlock(1)>>, days |-> <<DayRow(<< <<>> >>, <<GoodCell>>)>>],
      [hours |-> <<GoodBlock(2)>>, days |-> <<>>] }

Response(dir, doc) == [dir |-> dir, page |-> doc]

\* the portal's answers to a fetch
FetchResponses(op) ==
    IF op = "get_timetable"
    THEN { Response(d, EmptyDocument) :
             d \in {DirTransportError, Redirect(<<"/">> \o LOGIN), Redirect(<<"/", "x">>)} }
         \cup { Response(Page(TRUE, <<>>, <<>>, <<>>), doc) : doc \in BodyDocuments }
    ELSE { Response(d, EmptyDocument) : d \in DirResponses }

\* the Cookie header get_info sends for its token argument (Option<&str>)
GetInfoCookie(token) == IF token.some THEN AuthCookie(token.t) ELSE NoCookie

\* the token argument the constructors hand to get_info: the token they
\* hold; no_auth hands over "" where get_info takes an Option, which a build
\* can only take as None or as Some("")
GetInfoTokens(auth, tok) ==
    IF auth.kind = "None"
    THEN { [some |-> FALSE, t |-> 0], [some |-> TRUE, t |-> 0] }
    ELSE { [some |-> TRUE, t |-> tok] }

\* the selector a caller builds by hand, and the day of the fetches
FetchType == Type("Class", <<"C">>)
FetchDay == Date(2024, 1, 1)

\* HashMap::get(name).map(|id| Type::..(id))
Lookup(map, name, kind) ==
    IF name \in DOMAIN map THEN SomeType(Type(kind, map[name])) ELSE NoneType

get_class(dir, class) == Lookup(dir.classes, class, "Class")

get_room(dir, room) == Lookup(dir.rooms, room, "Room")

\* a name unknown under the kind asked for is looked up under the others
get_selector_AnyKind(dir, typ, name) ==
    IF name \in DOMAIN dir.classes THEN get_class(dir, name)
    ELSE IF name \in DOMAIN dir.teachers THEN SomeType(get_teacher(dir.teachers, name))
    ELSE get_room(dir, name)

\* Bakalari::get_selector: match typ { Class, Teacher, Room }
get_selector(dir, typ, name) ==
    CASE typ = "Class" -> get_class(dir, name)
      [] typ = "Teacher" ->
            IF name \in DOMAIN dir.teachers
            THEN SomeType(get_teacher(dir.teachers, name))
            ELSE NoneType
      [] OTHER -> get_room(dir, name)

RawTypes == {"Teacher", "Class", "Room"}

\* the names callers ask for: each is listed under one kind on one
\* directory page and under no kind on another
SelectorNames == {N7B, <<"N">>, <<"R">>}

\* Which: Permanent, Actual, Next
Which == {"Which::Permanent", "Which::Actual", "Which::Next"}

\* the text serde writes for a Which (rename_all = "lowercase")
WhichSerialized(w) ==
    CASE w = "Which::Permanent" -> "permanent"
      [] w = "Which::Actual" -> "actual"
      [] OTHER -> "next"

\* the derived Display of Which: no #[display] attribute, so the name of
\* the variant as it is written
WhichDisplay(w) ==
    CASE w = "Which::Permanent" -> "Permanent"
      [] w = "Which::Actual" -> "Actual"
      [] OTHER -> "Next"

\* the Display of Type: "teacher/{_0}", "class/{_0}", "room/{_0}"
TypeDisplay(t) ==
    CASE t.kind = "Teacher" -> <<"teacher", t.id>>
      [] t.kind = "Class" -> <<"class", t.id>>
      [] OTHER -> <<"room", t.id>>

\* format!("/timetable/public/{which}/{timetable_type}"), segment by segment
TimetablePath(which, type) ==
    <<"timetable", "public", WhichDisplay(which)>> \o TypeDisplay(type)

\* "timetable/public" of get_info and of Bakalari::test
PublicPath == <<"timetable", "public">>

\* Ok(Timetable::parse(..)?)
TimetableResult(t) ==
    IF t.kind = "ok" THEN FetchResult("ok", t) ELSE FetchResult("ParseFailed", t)

\* what a fetch returns for its response: get_info, Bakalari::test,
\* Bakalari::get_timetable
FetchOutcome(op, ttype, resp) ==
    CASE op = "get_info" -> FetchResult(get_info(resp.dir).kind, NoTimetable)
      [] op = "test" ->
            IF resp.dir.kind = "transport" THEN FetchResult("Request", NoTimetable)
            ELSE IF ~resp.dir.marker THEN FetchResult("UnknownResponse", NoTimetable)
            ELSE FetchResult("ok", NoTimetable)
      [] OTHER ->
            IF resp.dir.kind = "transport" THEN FetchResult("Request", NoTimetable)
            ELSE TimetableResult(TimetableParse(resp.page, ttype, FetchDay))

\* a fetch asks for the token and, with it, sends its request; a failed
\* renewal returns the error and nothing is sent.  The directory fetch is the
\* constructor's and comes first; the others need the Session.
\* the selectors a caller has at hand: the one it built and the one
\* get_selector returned last
Selectors == {FetchType} \cup (IF fSel.result.some THEN {fSel.result.v} ELSE {})

\* the arguments of a fetch: get_timetable takes which and timetable_type
FetchArgs(op) ==
    IF op = "get_timetable"
    THEN { [which |-> w, type |-> t] : w \in Which, t \in Selectors }
    ELSE { NoArgs }

\* the path a fetch requests
FetchPath(op, args) ==
    IF op = "get_timetable" THEN TimetablePath(args.which, args.type) ELSE PublicPath

FetchStart(op) ==
    /\ \/ fPc = "new" /\ op = "get_info"
       \/ fPc = "idle" /\ op # "get_info" /\ Len(fTokens) <= MaxFetches
    /\ \E resp \in LoginResponses(issued + 1) :
        LET g == AuthGetToken(fAuth, store, now, resp) IN
        /\ store' = g.store
        /\ issued' = IF g.logins > 0 /\ g.result.kind = "ok" THEN issued + 1 ELSE issued
        /\ fLogins' = fLogins + g.logins
        /\ \E args \in FetchArgs(op) :
            /\ fArgs' = args
            /\ IF g.result.kind # "ok"
               THEN /\ fResult' = FetchResult("Login", NoTimetable)
                    /\ fPc' = IF op = "get_info" THEN "failed" ELSE "idle"
                    /\ fTokens' = Append(fTokens, 0)
                    /\ fCookie' = NoCookie
                    /\ fPath' = <<>>
                    /\ fSent' = 0
               ELSE /\ fResult' = FetchResult("none", NoTimetable)
                    /\ fPc' = "wait"
                    /\ fTokens' = Append(fTokens, g.result.token)
                    /\ IF op = "get_info"
                       THEN \E tok \in GetInfoTokens(fAuth, g.result.token) :
                                fCookie' = GetInfoCookie(tok)
                       ELSE fCookie' = AuthCookie(g.result.token)
                    /\ fPath' = FetchPath(op, args)
                    /\ fSent' = 1
    /\ fOp' = op
    /\ fResp' = NoResponse
    /\ UNCHANGED <<now, chan, req, apc, cur, inflight, last, fAuth, fDir, fSel>>
    /\ UNCHANGED <<ctorVars, dateVars, lessonVars, parseVars>>

\* the response arrives and the fetch returns
FetchDone ==
    /\ fPc = "wait"
    /\ \E resp \in FetchResponses(fOp) :
        /\ fResp' = resp
        /\ fResult' = FetchOutcome(fOp, fArgs.type, resp)
        /\ fPc' = IF fOp = "get_info" /\ fResult'.kind # "ok" THEN "failed" ELSE "idle"
        /\ fDir' = IF fOp = "get_info" /\ fResult'.kind = "ok"
                   THEN get_info(resp.dir) ELSE fDir
    /\ UNCHANGED <<fAuth, fOp, fCookie, fTokens, fLogins, fSel, fArgs, fPath, fSent>>
    /\ UNCHANGED <<tokenVars, ctorVars, dateVars, lessonVars, parseVars>>

\* Bakalari::get_selector on the Session: no request is made
GetSelector(typ, name) ==
    /\ fPc = "idle"
    /\ fSel' = [typ |-> typ, name |-> name, result |-> get_selector(fDir, typ, name)]
    /\ UNCHANGED <<fAuth, fPc, fOp, fCookie, fResp, fResult, fTokens, fLogins,
                   fDir, fArgs, fPath, fSent>>
    /\ UNCHANGED <<tokenVars, ctorVars, dateVars, lessonVars, parseVars>>

\* time passes between the fetches
FetchTick ==
    /\ fPc \in {"new", "idle", "wait"}
    /\ \E d \in TickSteps : now + d <= MaxTime /\ now' = now + d
    /\ UNCHANGED <<store, chan, req, apc, cur, inflight, issued, last, fetchVars>>
    /\ UNCHANGED <<ctorVars, dateVars, lessonVars, parseVars>>

\* the Session as its constructor holds it before the directory fetch:
\* from_creds and from_creds_no_store have logged in at time 0
InitFetch ==
    /\ fAuth \in {Auth("Credentials", 0), Auth("Token", 1), Auth("None", 0)}
    /\ fPc = "new"
    /\ fOp = "none"
    /\ fCookie = NoCookie
    /\ fResp = NoResponse
    /\ fResult = FetchResult("none", NoTimetable)
    /\ fTokens = <<>>
    /\ fLogins = 0
    /\ fDir = NoDirectory
    /\ fSel = NoSelection
    /\ fArgs = NoArgs
    /\ fPath = <<>>
    /\ fSent = 0
    /\ now = 0
    /\ store = IF fAuth.kind = "Credentials" THEN TempTokenNew(1, 0)
               ELSE [token |-> 0, expiration |-> 0]
    /\ issued = IF fAuth.kind = "None" THEN 0 ELSE 1
    /\ chan = <<>>
    /\ req = [r \in Requests |-> NewRequest]
    /\ apc = "recv"
    /\ cur = 0
    /\ inflight = 0
    /\ last = NoLast
    /\ CtorIdle
    /\ DateIdle
    /\ LessonIdle
    /\ ParseIdle

NextFetch ==
    \/ \E op \in {"get_info", "get_timetable", "test"} : FetchStart(op)
    \/ FetchDone
    \/ \E typ \in RawTypes, name \in SelectorNames : GetSelector(typ, name)
    \/ FetchTick

SpecFetch == InitFetch /\ [][NextFetch]_vars

\* the fetch made last has returned
Returned == fOp # "none" /\ fPc # "wait" /\ fPc # "new"

\* the response received last is a redirect
IsRedirect == fResp.dir.kind = "http" /\ fResp.dir.status \in 300..399

\* its Location header is a text in which "login" occurs
PointsAtLogin ==
    /\ fResp.dir.location \notin {NoLocation, OpaqueLocation}
    /\ \E i \in 1..Len(fResp.dir.location) :
          /\ i + 4 <= Len(fResp.dir.location)
          /\ SubSeq(fResp.dir.location, i, i + 4) = <<"l", "o", "g", "i", "n">>

\* C17: whichever fetch it was (directory, timetable, connectivity check), a
\* redirect whose target contains "login" is returned as the auth-required
\* error; get_timetable returns no Timetable for it.
C17_LoginRedirectIsAuthRequired ==
    (Returned /\ IsRedirect /\ PointsAtLogin) => fResult.kind = "AuthRequired"

\* C18: the directory fetch answers a redirect with AuthRequired when its
\* Location contains "login" and with UnknownResponse otherwise (another
\* target, no Location header, one that is no text); the constructor then
\* fails and no directory is handed out.
C18_RedirectClassified ==
    (Returned /\ fOp = "get_info" /\ IsRedirect) =>
        /\ fResult.kind = IF PointsAtLogin THEN "AuthRequired" ELSE "UnknownResponse"
        /\ fPc = "failed"
        /\ get_info(fResp.dir).classes = EmptyMap
        /\ get_info(fResp.dir).teachers = EmptyMap
        /\ get_info(fResp.dir).rooms = EmptyMap

\* C18 witness: the directory fetch was redirected to a page that is not the
\* login page and returned UnknownResponse
C18_Witness ==
    /\ fOp = "get_info" /\ fResp.dir = Redirect(<<"/", "x">>)
    /\ fResult.kind = "UnknownResponse"

\* C19: a Session without authentication sends no Cookie header, on no
\* request.
C19_AnonymousSendsNoCookie ==
    fAuth.kind = "None" => ~fCookie.sent

\* C20: a Session with a bare token hands out that token on every
\* get_token, sends it on every request, and makes no login exchange, however
\* much time passes and whatever the portal answers.
C20_BareTokenFixed ==
    fAuth.kind = "Token" =>
        /\ fLogins = 0
        /\ issued = 1
        /\ \A k \in 1..Len(fTokens) : fTokens[k] = fAuth.token
        /\ fCookie.sent => fCookie.token = fAuth.token

\* C20 witness: after more than the lifetime of a stored token and a
\* redirect to the login page, the bare token was handed out a third time
C20_Witness ==
    /\ fAuth.kind = "Token"
    /\ now > TOKEN_LIFETIME
    /\ Len(fTokens) = 3
    /\ fOp = "get_timetable" /\ Returned /\ IsRedirect /\ PointsAtLogin
    /\ fCookie = AuthCookie(fAuth.token)

\* the <option>s of one kind on the directory page, and the Session's map
OptionsOf(dir, kind) ==
    CASE kind = "Class" -> dir.classes
      [] kind = "Teacher" -> dir.teachers
      [] OTHER -> dir.rooms

\* option j is the last in document order of several options with its
\* trimmed display name, one of them with another value
LastOfDuplicates(opts, j) ==
    /\ \E i \in 1..(j - 1) :
          /\ Trim(opts[i].texts[1]) = Trim(opts[j].texts[1])
          /\ opts[i].value # opts[j].value
    /\ \A k \in (j + 1)..Len(opts) : Trim(opts[k].texts[1]) # Trim(opts[j].texts[1])

\* C21: when the directory page lists several options of one kind with the
\* same trimmed display name and different values, the map of the Session
\* holds the value of the last of them in document order, and get_selector
\* for that name returns that identifier.
C21_LastDuplicateWins ==
    (fOp = "get_info" /\ Returned /\ fResult.kind = "ok") =>
        \A kind \in RawTypes :
            LET opts == OptionsOf(fResp.dir, kind)
                map == OptionsOf(fDir, kind)
            IN  \A j \in 1..Len(opts) :
                    LastOfDuplicates(opts, j) =>
                        LET name == Trim(opts[j].texts[1]) IN
                        /\ name \in DOMAIN map
                        /\ map[name] = Trim(opts[j].value)
                        /\ (fSel.typ = kind /\ fSel.name = name) =>
                              fSel.result = SomeType(Type(kind, Trim(opts[j].value)))

\* C21 witness: the page listed "7.B" with value 1 and then "7.B " with
\* value 2, and get_selector(Class, "7.B") returned Class("2")
C21_Witness ==
    /\ fOp = "get_info" /\ Returned
    /\ Len(fResp.dir.classes) = 2
    /\ LastOfDuplicates(fResp.dir.classes, 2)
    /\ fSel = [typ |-> "Class", name |-> N7B,
               result |-> SomeType(Type("Class", <<"2">>))]

\* C22: get_selector(kind, name) returns a Selector only when name is a key
\* of the Session's map for that kind, and then one of that kind with the
\* identifier stored under name; for every other name, one known under
\* another kind included, it returns None.
C22_SelectorOnlyFromOwnMap ==
    fSel.typ # "none" =>
        LET map == OptionsOf(fDir, fSel.typ) IN
        /\ fSel.name \in DOMAIN map =>
              fSel.result = SomeType(Type(fSel.typ, map[fSel.name]))
        /\ fSel.name \notin DOMAIN map => fSel.result = NoneType

\* C22 witness: a name listed as a teacher was asked for as a class and
\* None was returned
C22_Witness ==
    /\ fSel.typ = "Class"
    /\ fSel.name \in DOMAIN fDir.teachers
    /\ fSel.name \notin DOMAIN fDir.classes
    /\ fSel.result = NoneType

\* the kind segment of a timetable path
KindSegment(t) ==
    CASE t.kind = "Teacher" -> "teacher"
      [] t.kind = "Class" -> "class"
      [] OTHER -> "room"

\* C23: for every Which w and Selector s, get_timetable requests
\* /timetable/public/<which>/<kind>/<id> with <which> the lowercase
\* permanent, actual or next of w, <kind> the teacher, class or room of s
\* and <id> the identifier s holds.
C23_PathLowercase ==
    (fOp = "get_timetable" /\ fSent > 0) =>
        fPath = <<"timetable", "public", WhichSerialized(fArgs.which),
                  KindSegment(fArgs.type), fArgs.type.id>>

\* C25: no operation retries: the get_token calls of a Session cause at
\* most one login each, a fetch sends at most one HTTP request, and when
\* the login or the request fails the error is what the call returns.
C25_NoRetry ==
    /\ \A r \in Requests :
          /\ req[r].logins <= 1
          /\ (req[r].pc = "done" /\ req[r].result.kind # "ok") => req[r].logins = 1
    /\ fLogins <= Len(fTokens)
    /\ fSent <= 1
    /\ (Returned /\ fSent = 0) => fResult.kind = "Login"
    /\ (Returned /\ fOp = "get_timetable" /\ fSent = 1) =>
          /\ fResp.dir.kind = "transport" => fResult.kind = "Request"
          /\ fResult.timetable.kind \notin {"ok", "none"} => fResult.kind = "ParseFailed"

\* C25 witness: a get_timetable call whose one request failed returned the
\* transport error, after a call whose one login had failed
C25_Witness ==
    /\ fOp = "get_timetable" /\ Returned /\ fSent = 1
    /\ fResp.dir.kind = "transport" /\ fResult.kind = "Request"
    /\ fLogins = 2 /\ \E k \in 1..Len(fTokens) : fTokens[k] = 0

====
